---- MODULE Spec2Model ----
(***************************************************************************)
(* Role-based scoring application: judges submit per-category scores and   *)
(* comments for teams (JudgeDashboard.tsx), a public leaderboard           *)
(* aggregates the totals (Leaderboard.tsx), rows live in the external      *)
(* relational store (supabase/migrations/...create_leaderboard_schema.sql).*)
(*                                                                         *)
(* Timestamps (created_at, updated_at) are not part of the state: no code  *)
(* path of the modelled handlers reads them.                               *)
(***************************************************************************)
EXTENDS Integers, Sequences, FiniteSets, Bags, TLC

(***************************************************************************)
(* Bounds of the model                                                     *)
(***************************************************************************)
\* largest max_score of a category row (the schema's default is 10)
MaxScore == 2
\* number of user inputs (team button, score field, comment field, save button)
\* of a judge session
MaxInputs == 3
\* number of writes issued by callers other than the dashboards
MaxDirect == 1
\* largest score value of a row in the stores the leaderboard runs start from
MaxRankScore == 1
\* number of sign-ins, sign-outs, reloads and session notifications of a browser
MaxAuth == 3

(***************************************************************************)
(* Data of the store                                                       *)
(***************************************************************************)
Null == "null"
Undefined == "undefined"
Failed == "error"

\* ids of the rows of teams used by the judge sessions, in name order
JudgeTeams == <<"t1", "t2">>
\* ids of the rows of teams the leaderboard runs draw from
AllTeams == {"t1", "t2", "t3"}
Judges == {"j1", "j2"}
\* rows of score_categories, ordered by name
CategoryRows == << [id |-> "c1", name |-> "Design", max_score |-> MaxScore],
                   [id |-> "c2", name |-> "Innovation", max_score |-> MaxScore] >>
CategoryIds == {CategoryRows[i].id : i \in 1..Len(CategoryRows)}
\* the tabs of the browsers: each mounts its own AuthProvider and pages
Sessions == {"s1", "s2"}
\* rows of judges.name: UNIQUE NOT NULL
JudgeName(j) == IF j = "j1" THEN "Ann" ELSE "Bob"
JudgeRow(j) == [id |-> j, name |-> JudgeName(j)]
\* the account of auth.users
AdminAccount == [id |-> "a1", email |-> "admin@x", password |-> "pw"]

TeamName(t) == CASE t = "t1" -> "Alpha" [] t = "t2" -> "Beta" [] OTHER -> "Gamma"
TeamRow(t) == [id |-> t, name |-> TeamName(t)]

ScoreValues == 0..MaxScore

VARIABLES
    \* ---- the store
    teamsTable,      \* rows of teams, a sequence in the order a select returns them
    scoresTable,     \* rows of scores, a bag of [team_id, judge_id, category_id, score]
    commentsTable,   \* rows of comments, a set of [id, team_id, judge_id, comment]
    commentSeq,      \* number of ids handed out by gen_random_uuid() for comments
    \* ---- Leaderboard component
    lbPc,            \* position of fetchLeaderboard
    lbScores,        \* const scores of fetchLeaderboard
    lbTeams,         \* const teams of fetchLeaderboard
    leaderboard,     \* useState leaderboard
    lbLoading,       \* useState loading of Leaderboard
    \* ---- AuthProvider, one per session; localStorage and the auth session of
    \* ---- the browser are shared by the sessions
    user,            \* useState user: <<>> for null, <<identity>> otherwise
    authSlot,        \* localStorage 'authUser': <<>> if absent, else the JSON text
    authSession,     \* the session of supabase.auth: <<>> or <<its user>>
    signOutPending,  \* sessions whose signOut waits for supabase.auth.signOut()
    page,            \* the route a session shows
    judgesTable,     \* rows of judges, a set of [id, name]
    notice,          \* per session: what the last step of its AuthProvider was
    nAuth,           \* counter of the bounded steps of the AuthProviders
    \* ---- JudgeDashboard component, one per session
    teams,           \* useState teams
    categories,      \* useState categories
    selectedTeam,    \* useState selectedTeam (its id, or Null)
    scores,          \* useState scores: category id -> number
    comment,         \* useState comment
    existingComment, \* useState existingComment: <<>> for null, <<row>> otherwise
    loading,         \* useState loading
    mountFetch,      \* the fetchTeams / fetchCategories calls of the mount effect in flight
    scoresFetch,     \* fetchScoresForTeam calls in flight
    commentFetch,    \* fetchCommentForTeam calls in flight
    run,             \* the saveScores invocation: position, outcome and the values it closed over
    origin,          \* history: the team each value of scores and comment was entered or loaded for
    \* ---- TeamDashboard component, one per session
    tdFetch,         \* the fetchData calls in flight: the user.id each closed over
    tdPc,            \* whether the last fetchData call that returned had got scoresData
    tdTotalScore,    \* useState totalScore
    \* ---- history
    submitted,       \* per (team, judge, category): the last values saveScores upserted
    commentLog,      \* per session: the comment writes saveScores applied
    nInputs, nDirect \* counters of the bounded inputs

storeVars == <<teamsTable, scoresTable, commentsTable, commentSeq>>
lbVars == <<lbPc, lbScores, lbTeams, leaderboard, lbLoading>>
formVars == <<scores, comment, existingComment>>
judgeVars == <<teams, categories, selectedTeam, formVars, loading,
               mountFetch, scoresFetch, commentFetch, run, origin>>
teamVars == <<tdFetch, tdPc, tdTotalScore>>
authVars == <<user, authSlot, authSession, signOutPending, page, judgesTable, notice, nAuth>>
historyVars == <<submitted, commentLog, nInputs, nDirect>>
vars == <<storeVars, lbVars, authVars, judgeVars, teamVars, historyVars>>

(***************************************************************************)
(* Helpers on sequences and bags                                           *)
(***************************************************************************)
Range(seq) == {seq[i] : i \in 1..Len(seq)}

RECURSIVE SeqOfBag(_)
\* the rows of a table as the array a select returns
SeqOfBag(B) ==
    IF BagToSet(B) = {} THEN <<>>
    ELSE LET r == CHOOSE x \in BagToSet(B) : TRUE
         IN  <<r>> \o SeqOfBag(B (-) SetToBag({r}))

RECURSIVE Perms(_)
\* all orders of the elements of a set
Perms(S) ==
    IF S = {} THEN {<<>>}
    ELSE UNION {{<<x>> \o p : p \in Perms(S \ {x})} : x \in S}

(***************************************************************************)
(* Leaderboard.tsx: fetchLeaderboard                                       *)
(***************************************************************************)
\* .from('scores').select('team_id, score')
SelectScores(table) ==
    LET rows == SeqOfBag(table)
    IN  [i \in 1..Len(rows) |-> [team_id |-> rows[i].team_id, score |-> rows[i].score]]

\* .from('teams').select('id, name')
SelectTeams(table) == table

\* scores?.filter(s => s.team_id === team.id) || []
teamScoreData(S, team) == SelectSeq(S, LAMBDA s : s.team_id = team.id)

RECURSIVE Reduce(_, _)
\* arr.reduce((sum, s) => sum + s.score, init)
Reduce(arr, init) ==
    IF arr = <<>> THEN init
    ELSE Reduce(Tail(arr), init + Head(arr).score)

totalScore_ZeroRowsOne(S, team) == Reduce(teamScoreData(S, team), 1)
totalScore_AllRows(S, team) == Reduce(S, 0)
totalScore(S, team) == Reduce(teamScoreData(S, team), 0)

\* teams.map(team => ({team_id, team_name, total_score}))
teamScores(S, T) ==
    [i \in 1..Len(T) |-> [team_id |-> T[i].id,
                          team_name |-> T[i].name,
                          total_score |-> totalScore(S, T[i])]]

\* the comparator (a, b) => b.total_score - a.total_score
Compare_Ascending(a, b) == a.total_score - b.total_score
Compare(a, b) == b.total_score - a.total_score

RECURSIVE InsertSorted_TiesFirst(_, _)
InsertSorted_TiesFirst(e, sorted) ==
    IF sorted = <<>> THEN <<e>>
    ELSE IF Compare(Head(sorted), e) < 0
         THEN <<Head(sorted)>> \o InsertSorted_TiesFirst(e, Tail(sorted))
         ELSE <<e>> \o sorted

RECURSIVE InsertSorted(_, _)
\* Array.prototype.sort is stable: an element goes behind every element
\* that does not compare greater than it
InsertSorted(e, sorted) ==
    IF sorted = <<>> THEN <<e>>
    ELSE IF Compare(Head(sorted), e) <= 0
         THEN <<Head(sorted)>> \o InsertSorted(e, Tail(sorted))
         ELSE <<e>> \o sorted

RECURSIVE Sort(_)
\* teamScores.sort(cmp)
Sort(arr) ==
    IF arr = <<>> THEN <<>>
    ELSE InsertSorted(arr[Len(arr)], Sort(SubSeq(arr, 1, Len(arr) - 1)))

\* teamScores.map((entry, index) => ({...entry, rank: index + 1}))
rankedData(sortedScores) ==
    [i \in 1..Len(sortedScores) |->
        [team_id |-> sortedScores[i].team_id,
         team_name |-> sortedScores[i].team_name,
         total_score |-> sortedScores[i].total_score,
         rank |-> (i - 1) + 1]]

\* what the Leaderboard page renders from its state: the loading screen, or the
\* table with one line per entry, or with the line for an empty leaderboard
View(isLoading, entries) ==
    IF isLoading THEN [text |-> "Loading leaderboard...", lines |-> <<>>]
    ELSE IF Len(entries) = 0
         THEN [text |-> "No teams have been scored yet", lines |-> <<>>]
         ELSE [text |-> "", lines |-> entries]

\* mount of the Leaderboard page: useState initial values, useEffect starts the fetch
LeaderboardMount ==
    /\ lbPc \in {"done", "failed"}
    /\ lbPc' = "scores"
    /\ lbScores' = <<>>
    /\ lbTeams' = <<>>
    /\ leaderboard' = <<>>
    /\ lbLoading' = TRUE
    /\ UNCHANGED <<storeVars, authVars, judgeVars, teamVars, historyVars>>

\* first await of fetchLeaderboard: the scores query returns
FetchLeaderboardScores ==
    /\ lbPc = "scores"
    /\ \/ /\ lbScores' = SelectScores(scoresTable)
          /\ lbPc' = "teams"
          /\ UNCHANGED lbLoading
       \/ /\ lbPc' = "failed"          \* if (error) throw error; finally
          /\ lbLoading' = FALSE
          /\ UNCHANGED lbScores
    /\ UNCHANGED <<lbTeams, leaderboard, storeVars, authVars, judgeVars, teamVars, historyVars>>

\* second await of fetchLeaderboard: the teams query returns, the ranking is computed
FetchLeaderboardTeams ==
    /\ lbPc = "teams"
    /\ \/ /\ lbTeams' = SelectTeams(teamsTable)
          /\ leaderboard' = rankedData(Sort(teamScores(lbScores, lbTeams')))
          /\ lbPc' = "done"
       \/ /\ lbPc' = "failed"          \* if (teamsError) throw teamsError
          /\ UNCHANGED <<lbTeams, leaderboard>>
    /\ lbLoading' = FALSE
    /\ UNCHANGED <<lbScores, storeVars, authVars, judgeVars, teamVars, historyVars>>

(***************************************************************************)
(* JudgeDashboard.tsx                                                      *)
(***************************************************************************)
\* user?.id
UserId(s) == IF user[s] = <<>> THEN Null ELSE user[s][1].id

EmptyMap == [c \in {} |-> 0]
MapSet(m, k, v) == [c \in (DOMAIN m) \cup {k} |-> IF c = k THEN v ELSE m[c]]

Min(a, b) == IF a < b THEN a ELSE b
Max(a, b) == IF a > b THEN a ELSE b

Digits == <<"0", "1", "2", "3", "4", "5", "6", "7", "8", "9">>
IsDigit(ch) == \E d \in 1..Len(Digits) : Digits[d] = ch
DigitValue(ch) == (CHOOSE d \in 1..Len(Digits) : Digits[d] = ch) - 1

RECURSIVE ParseDigits(_, _, _)
\* the digits at the front of str read as a decimal number; seen says whether
\* a digit was read
ParseDigits(str, acc, seen) ==
    IF str # <<>> /\ IsDigit(Head(str))
    THEN ParseDigits(Tail(str), 10 * acc + DigitValue(Head(str)), TRUE)
    ELSE [nan |-> ~seen, value |-> acc]

RECURSIVE TrimStart(_)
TrimStart(str) ==
    IF str # <<>> /\ Head(str) = " " THEN TrimStart(Tail(str)) ELSE str

RECURSIVE TrimEnd(_)
TrimEnd(str) ==
    IF str # <<>> /\ str[Len(str)] = " " THEN TrimEnd(SubSeq(str, 1, Len(str) - 1)) ELSE str

trim_KeepsBlanks(str) == str
\* String.prototype.trim on a sequence of characters
trim(str) == TrimEnd(TrimStart(str))

\* parseInt(str): leading blanks, an optional sign, then decimal digits
parseInt(str) ==
    LET t == TrimStart(str)
        neg == t # <<>> /\ Head(t) = "-"
        body == IF t # <<>> /\ Head(t) \in {"-", "+"} THEN Tail(t) ELSE t
        r == ParseDigits(body, 0, FALSE)
    IN  [nan |-> r.nan, value |-> IF neg THEN 0 - r.value ELSE r.value]

\* parseInt(e.target.value) || 0
value(str) == LET r == parseInt(str) IN IF r.nan \/ r.value = 0 THEN 0 ELSE r.value

\* Math.min(Math.max(0, value), category.max_score)
clampedValue(v, category) == Min(Max(0, v), category.max_score)

CategoryOf(cats, id) == CHOOSE i \in 1..Len(cats) : cats[i].id = id

Alphabet == <<"Alpha", "Beta", "Gamma", "Design", "Innovation">>
NameBefore(a, b) ==
    (CHOOSE i \in 1..Len(Alphabet) : Alphabet[i] = a.name)
        < (CHOOSE i \in 1..Len(Alphabet) : Alphabet[i] = b.name)

RECURSIVE OrderByName(_)
\* .order('name')
OrderByName(rows) ==
    IF rows = <<>> THEN <<>>
    ELSE LET first == CHOOSE i \in 1..Len(rows) :
                          \A k \in 1..Len(rows) : k # i => NameBefore(rows[i], rows[k])
         IN  <<rows[first]>> \o
             OrderByName(SubSeq(rows, 1, first - 1) \o SubSeq(rows, first + 1, Len(rows)))

\* ---- queries and writes of the store
SameKey(r, q) ==
    /\ r.team_id = q.team_id
    /\ r.judge_id = q.judge_id
    /\ r.category_id = q.category_id

upsert_ConflictOnTeamJudge(table, row) ==
    LET conflicts == {r \in BagToSet(table) :
                         r.team_id = row.team_id /\ r.judge_id = row.judge_id}
    IN  IF conflicts = {} THEN table (+) SetToBag({row})
        ELSE LET old == CHOOSE r \in conflicts : TRUE
             IN  (table (-) SetToBag({old})) (+) SetToBag({row})
upsert_AlwaysInserts(table, row) == table (+) SetToBag({row})
upsert_ConflictOnEqualRow(table, row) ==
    IF row \in BagToSet(table) THEN table ELSE table (+) SetToBag({row})
upsert_DoNothingOnConflict(table, row) ==
    IF \E r \in BagToSet(table) : SameKey(r, row) THEN table ELSE table (+) SetToBag({row})
upsert_ConflictOnTeam(table, row) ==
    [r \in {x \in BagToSet(table) : x.team_id # row.team_id} |-> CopiesIn(r, table)]
        (+) SetToBag({row})
\* .upsert(row, {onConflict: 'team_id,judge_id,category_id'}) under UNIQUE(team_id,
\* judge_id, category_id): the conflicting row is overwritten, else the row is inserted
upsert(table, row) ==
    LET conflicts == {r \in BagToSet(table) : SameKey(r, row)}
    IN  IF conflicts = {} THEN table (+) SetToBag({row})
        ELSE LET old == CHOOSE r \in conflicts : TRUE
             IN  (table (-) SetToBag({old})) (+) SetToBag({row})

\* .from('scores').select('*').eq('team_id', teamId).eq('judge_id', user?.id),
\* then scoresMap[score.category_id] = score.score for each row
scoresMap(table, teamId, judgeId) ==
    LET rows == {r \in BagToSet(table) : r.team_id = teamId /\ r.judge_id = judgeId}
    IN  [c \in {r.category_id : r \in rows} |->
            (CHOOSE r \in rows : r.category_id = c).score]

\* .maybeSingle(): no row gives null, one row gives the row, more rows give an error
maybeSingle(rows) ==
    IF Cardinality(rows) = 1 THEN [error |-> FALSE, data |-> <<CHOOSE r \in rows : TRUE>>]
    ELSE [error |-> Cardinality(rows) > 1, data |-> <<>>]

\* .from('comments').select('*').eq('team_id', teamId).eq('judge_id', user?.id)
CommentsOf(table, teamId, judgeId) ==
    {c \in table : c.team_id = teamId /\ c.judge_id = judgeId}

updateComment_NoFilter(table, id, text) == {[c EXCEPT !.comment = text] : c \in table}
\* .from('comments').update({comment}).eq('id', id)
updateComment(table, id, text) ==
    {IF c.id = id THEN [c EXCEPT !.comment = text] ELSE c : c \in table}

insertComment_OnePerPair(table, id, teamId, judgeId, text) ==
    {c \in table : ~(c.team_id = teamId /\ c.judge_id = judgeId)}
        \cup {[id |-> id, team_id |-> teamId, judge_id |-> judgeId, comment |-> text]}
\* .from('comments').insert({team_id, judge_id, comment}) with a fresh id
insertComment(table, id, teamId, judgeId, text) ==
    table \cup {[id |-> id, team_id |-> teamId, judge_id |-> judgeId, comment |-> text]}

\* no value of the form was entered or loaded for a team
NoOrigin == [scores |-> EmptyMap, comment |-> Null]

\* ---- the effect on user: fetchTeams and fetchCategories.  A fetchTeams call
\* closes over selectedTeam: "teams" is a call made while it was null,
\* "teams, selected" a call made while a team was selected
fetchTeamsReturn(s) ==
    \E f \in mountFetch[s] \cap {"teams", "teams, selected"} :
    /\ mountFetch' = [mountFetch EXCEPT ![s] = @ \ {f}]
    /\ \/ LET data == OrderByName(teamsTable)
          IN  /\ teams' = [teams EXCEPT ![s] = data]
              /\ IF Len(data) > 0 /\ f = "teams"      \* && !selectedTeam
                 THEN /\ selectedTeam' = [selectedTeam EXCEPT ![s] = data[1].id]
                      \* effect on selectedTeam
                      /\ scoresFetch' = [scoresFetch EXCEPT ![s] =
                            @ \cup {[team |-> data[1].id, judge |-> UserId(s), state |-> "sent",
                                     data |-> EmptyMap]}]
                      /\ commentFetch' = [commentFetch EXCEPT ![s] =
                            @ \cup {[team |-> data[1].id, judge |-> UserId(s), state |-> "sent",
                                     data |-> <<>>]}]
                 ELSE UNCHANGED <<selectedTeam, scoresFetch, commentFetch>>
       \/ UNCHANGED <<teams, selectedTeam, scoresFetch, commentFetch>>   \* error
    /\ UNCHANGED <<storeVars, lbVars, authVars, categories, formVars, loading, run, origin,
                   historyVars, teamVars>>

fetchCategoriesReturn(s) ==
    /\ "categories" \in mountFetch[s]
    /\ mountFetch' = [mountFetch EXCEPT ![s] = @ \ {"categories"}]
    /\ \/ categories' = [categories EXCEPT ![s] = OrderByName(CategoryRows)]
       \/ UNCHANGED categories                                           \* error
    /\ UNCHANGED <<storeVars, lbVars, authVars, teams, selectedTeam, formVars, loading,
                   scoresFetch, commentFetch, run, origin, historyVars, teamVars>>

\* onClick={() => setSelectedTeam(team)} and the effect on selectedTeam
selectTeam(s, i) ==
    /\ i \in 1..Len(teams[s])
    /\ teams[s][i].id # selectedTeam[s]
    /\ selectedTeam' = [selectedTeam EXCEPT ![s] = teams[s][i].id]
    /\ scoresFetch' = [scoresFetch EXCEPT ![s] =
          @ \cup {[team |-> teams[s][i].id, judge |-> UserId(s), state |-> "sent",
                   data |-> EmptyMap]}]
    /\ commentFetch' = [commentFetch EXCEPT ![s] =
          @ \cup {[team |-> teams[s][i].id, judge |-> UserId(s), state |-> "sent",
                   data |-> <<>>]}]
    /\ nInputs' = [nInputs EXCEPT ![s] = @ + 1]
    /\ UNCHANGED <<storeVars, lbVars, authVars, teams, categories, formVars, loading,
                   mountFetch, run, origin, submitted, commentLog, nDirect, teamVars>>

\* onChange of the score input of a category
onChange(s, i, str) ==
    /\ selectedTeam[s] # Null
    /\ i \in 1..Len(categories[s])
    /\ scores' = [scores EXCEPT ![s] =
          MapSet(@, categories[s][i].id, clampedValue(value(str), categories[s][i]))]
    /\ origin' = [origin EXCEPT ![s].scores = MapSet(@, categories[s][i].id, selectedTeam[s])]
    /\ nInputs' = [nInputs EXCEPT ![s] = @ + 1]
    /\ UNCHANGED <<storeVars, lbVars, authVars, teams, categories, selectedTeam, comment,
                   existingComment, loading, mountFetch, scoresFetch, commentFetch, run,
                   submitted, commentLog, nDirect, teamVars>>

\* onChange of the comment textarea
setComment(s, str) ==
    /\ selectedTeam[s] # Null
    /\ comment[s] # str
    /\ comment' = [comment EXCEPT ![s] = str]
    /\ origin' = [origin EXCEPT ![s].comment = selectedTeam[s]]
    /\ nInputs' = [nInputs EXCEPT ![s] = @ + 1]
    /\ UNCHANGED <<storeVars, lbVars, authVars, teams, categories, selectedTeam, scores,
                   existingComment, loading, mountFetch, scoresFetch, commentFetch, run,
                   submitted, commentLog, nDirect, teamVars>>

\* fetchScoresForTeam: the store answers the query; data is the scoresMap the
\* handler builds from the rows; an error leads to setScores({}) like an answer
\* without rows
fetchScoresForTeamQuery(s) ==
    \E f \in scoresFetch[s] :
        /\ f.state = "sent"
        /\ \E data \in {scoresMap(scoresTable, f.team, f.judge), EmptyMap} :
              scoresFetch' = [scoresFetch EXCEPT ![s] =
                  (@ \ {f}) \cup {[f EXCEPT !.state = "answered", !.data = data]}]
        /\ UNCHANGED <<storeVars, lbVars, authVars, teams, categories, selectedTeam, formVars,
                       loading, mountFetch, commentFetch, run, origin, historyVars, teamVars>>

\* fetchScoresForTeam: the answer arrives
fetchScoresForTeamReturn(s) ==
    \E f \in scoresFetch[s] :
        /\ f.state = "answered"
        /\ scoresFetch' = [scoresFetch EXCEPT ![s] = @ \ {f}]
        /\ scores' = [scores EXCEPT ![s] = f.data]
        /\ origin' = [origin EXCEPT ![s].scores = [c \in DOMAIN f.data |-> f.team]]
        /\ UNCHANGED <<storeVars, lbVars, authVars, teams, categories, selectedTeam, comment,
                       existingComment, loading, mountFetch, commentFetch, run, historyVars, teamVars>>

\* fetchCommentForTeam: the store answers the query; an error (of the request or
\* of maybeSingle over several rows) is handled like the answer null
fetchCommentForTeamQuery(s) ==
    \E f \in commentFetch[s] :
        /\ f.state = "sent"
        /\ \E data \in {maybeSingle(CommentsOf(commentsTable, f.team, f.judge)).data, <<>>} :
              commentFetch' = [commentFetch EXCEPT ![s] =
                  (@ \ {f}) \cup {[f EXCEPT !.state = "answered", !.data = data]}]
        /\ UNCHANGED <<storeVars, lbVars, authVars, teams, categories, selectedTeam, formVars,
                       loading, mountFetch, scoresFetch, run, origin, historyVars, teamVars>>

\* fetchCommentForTeam: the answer arrives
fetchCommentForTeamReturn(s) ==
    \E f \in commentFetch[s] :
        /\ f.state = "answered"
        /\ commentFetch' = [commentFetch EXCEPT ![s] = @ \ {f}]
        /\ IF f.data # <<>>                \* if (!error && data)
           THEN /\ existingComment' = [existingComment EXCEPT ![s] = f.data]
                /\ comment' = [comment EXCEPT ![s] = f.data[1].comment]
           ELSE /\ existingComment' = [existingComment EXCEPT ![s] = <<>>]
                /\ comment' = [comment EXCEPT ![s] = <<>>]
        /\ origin' = [origin EXCEPT ![s].comment = f.team]
        /\ UNCHANGED <<storeVars, lbVars, authVars, teams, categories, selectedTeam, scores,
                       loading, mountFetch, scoresFetch, run, historyVars, teamVars>>

\* ---- saveScores
Idle == [pc |-> "idle", pos |-> 0, team |-> Null, judge |-> Null, scores |-> EmptyMap,
         comment |-> <<>>, existingComment |-> <<>>, categories |-> <<>>]

\* the values a saveScores invocation closes over
Closure(s) == [pc |-> "saving", pos |-> 0, team |-> selectedTeam[s], judge |-> UserId(s),
               scores |-> scores[s],
               comment |-> comment[s], existingComment |-> existingComment[s],
               categories |-> categories[s]]

NextAwait_CommentFirst(r, i) ==
    LET n == Len(r.categories)
    IN  IF i <= n + 1 /\ trim(r.comment) # <<>> THEN n + 1
        ELSE IF \E k \in i..n : r.categories[k].id \in DOMAIN r.scores
             THEN CHOOSE k \in i..n :
                      /\ r.categories[k].id \in DOMAIN r.scores
                      /\ \A m \in i..(k - 1) : r.categories[m].id \notin DOMAIN r.scores
             ELSE n + 2

RECURSIVE NextAwait(_, _)
\* the next await of a run from position i on: i <= n is the upsert of category i
\* (only if scores[category.id] !== undefined), n + 1 the comment write (only if
\* comment.trim() is non-empty), n + 2 the end of the try block
NextAwait(r, i) ==
    LET n == Len(r.categories)
    IN  IF i <= n
        THEN IF r.categories[i].id \in DOMAIN r.scores THEN i ELSE NextAwait(r, i + 1)
        ELSE IF i = n + 1 /\ trim(r.comment) # <<>> THEN n + 1 ELSE n + 2

Push(h, v) == IF Len(h) < 2 THEN Append(h, v) ELSE <<h[2], v>>
Record(hist, key, v) ==
    [k \in (DOMAIN hist) \cup {key} |->
        IF k = key THEN Push(IF key \in DOMAIN hist THEN hist[key] ELSE <<>>, v)
        ELSE hist[k]]

Succeed_NoCommentRefetch(s, r) ==
    /\ run' = [run EXCEPT ![s] = [r EXCEPT !.pc = "saved", !.pos = Len(r.categories) + 2]]
    /\ scoresFetch' = [scoresFetch EXCEPT ![s] =
          @ \cup {[team |-> r.team, judge |-> r.judge, state |-> "sent", data |-> EmptyMap]}]
    /\ loading' = [loading EXCEPT ![s] = FALSE]
    /\ UNCHANGED commentFetch
\* alert('Scores and comment saved successfully!'); the two re-fetches; finally
Succeed(s, r) ==
    /\ run' = [run EXCEPT ![s] = [r EXCEPT !.pc = "saved", !.pos = Len(r.categories) + 2]]
    /\ scoresFetch' = [scoresFetch EXCEPT ![s] =
          @ \cup {[team |-> r.team, judge |-> r.judge, state |-> "sent", data |-> EmptyMap]}]
    /\ commentFetch' = [commentFetch EXCEPT ![s] =
          @ \cup {[team |-> r.team, judge |-> r.judge, state |-> "sent", data |-> <<>>]}]
    /\ loading' = [loading EXCEPT ![s] = FALSE]

Fail_ContinuesWithNextWrite(s, r) ==
    /\ LET q == NextAwait(r, r.pos + 1)
       IN  IF q = Len(r.categories) + 2
           THEN Succeed(s, r)
           ELSE /\ run' = [run EXCEPT ![s] = [r EXCEPT !.pos = q]]
                /\ UNCHANGED <<scoresFetch, commentFetch, loading>>
    /\ UNCHANGED <<scoresTable, commentsTable, commentSeq, submitted, commentLog>>
Fail_RollsBack(s, r) ==
    /\ run' = [run EXCEPT ![s] = [r EXCEPT !.pc = "failed"]]
    /\ loading' = [loading EXCEPT ![s] = FALSE]
    /\ scoresTable' = [x \in {y \in BagToSet(scoresTable) :
                                  ~(y.team_id = r.team /\ y.judge_id = r.judge)} |->
                          CopiesIn(x, scoresTable)]
    /\ UNCHANGED <<commentsTable, commentSeq, submitted, commentLog, scoresFetch, commentFetch>>
Fail_LeavesLoading(s, r) ==
    /\ run' = [run EXCEPT ![s] = [r EXCEPT !.pc = "failed"]]
    /\ UNCHANGED <<scoresTable, commentsTable, commentSeq, submitted, commentLog,
                   scoresFetch, commentFetch, loading>>
\* a write of the run returned an error: throw error, the catch block's alert
\* of the message, finally; the writes applied before stay as they are
Fail(s, r) ==
    /\ run' = [run EXCEPT ![s] = [r EXCEPT !.pc = "failed"]]
    /\ loading' = [loading EXCEPT ![s] = FALSE]
    /\ UNCHANGED <<scoresTable, commentsTable, commentSeq, submitted, commentLog,
                   scoresFetch, commentFetch>>

\* click on the save button: saveScores up to its first await
saveScores(s) ==
    /\ ~loading[s]                     \* disabled={loading}
    /\ selectedTeam[s] # Null          \* if (!selectedTeam || !user) return
    /\ user[s] # <<>>
    /\ nInputs' = [nInputs EXCEPT ![s] = @ + 1]
    /\ LET r == Closure(s)
           p == NextAwait(r, 1)
       IN  IF p = Len(r.categories) + 2
           THEN Succeed(s, r)
           ELSE /\ run' = [run EXCEPT ![s] = [r EXCEPT !.pos = p]]
                /\ loading' = [loading EXCEPT ![s] = TRUE]
                /\ UNCHANGED <<scoresFetch, commentFetch>>
    /\ UNCHANGED <<storeVars, lbVars, authVars, teams, categories, selectedTeam, formVars,
                   mountFetch, origin, submitted, commentLog, nDirect, teamVars>>

\* the write a run waits for at its position
WriteOf(s, r) ==
    IF r.pos <= Len(r.categories)
    THEN LET c == r.categories[r.pos].id
             row == [team_id |-> r.team, judge_id |-> r.judge, category_id |-> c,
                     score |-> r.scores[c]]
         IN  /\ scoresTable' = upsert(scoresTable, row)
             /\ submitted' = Record(submitted, <<r.team, r.judge, c>>, r.scores[c])
             /\ UNCHANGED <<commentsTable, commentSeq, commentLog>>
    ELSE /\ IF r.existingComment # <<>>
            THEN /\ commentsTable' =
                        updateComment(commentsTable, r.existingComment[1].id, trim(r.comment))
                 /\ commentLog' = [commentLog EXCEPT ![s] = Append(@,
                        [kind |-> "update", id |-> r.existingComment[1].id, team |-> r.team,
                         comment |-> trim(r.comment)])]
                 /\ UNCHANGED commentSeq
            ELSE /\ commentsTable' = insertComment(commentsTable, commentSeq + 1, r.team,
                                                   r.judge, trim(r.comment))
                 /\ commentLog' = [commentLog EXCEPT ![s] = Append(@,
                        [kind |-> "insert", id |-> commentSeq + 1, team |-> r.team,
                         comment |-> trim(r.comment)])]
                 /\ commentSeq' = commentSeq + 1
         /\ UNCHANGED <<scoresTable, submitted>>

\* the awaited write returns: on an error the catch block runs, otherwise the
\* run goes on to its next await or to the end of the try block
saveScoresWrite(s) ==
    /\ run[s].pc = "saving"
    /\ LET r == run[s]
       IN  \/ /\ WriteOf(s, r)
              /\ LET q == NextAwait(r, r.pos + 1)
                 IN  IF q = Len(r.categories) + 2
                     THEN Succeed(s, r)
                     ELSE /\ run' = [run EXCEPT ![s] = [r EXCEPT !.pos = q]]
                          /\ UNCHANGED <<scoresFetch, commentFetch, loading>>
           \/ Fail(s, r)                                    \* if (error) throw error
    /\ UNCHANGED <<teamsTable, lbVars, authVars, teams, categories, selectedTeam, formVars,
                   mountFetch, origin, nInputs, nDirect, teamVars>>

(***************************************************************************)
(* A caller of the store outside the dashboards: the policies "Anyone can  *)
(* insert scores" and "Anyone can update scores" admit any row             *)
(***************************************************************************)
directWrite(row) ==
    /\ scoresTable' = upsert(scoresTable, row)
    /\ nDirect' = nDirect + 1
    /\ UNCHANGED <<teamsTable, commentsTable, commentSeq, lbVars, authVars, judgeVars, teamVars,
                   submitted, commentLog, nInputs>>

(***************************************************************************)
(* AdminDashboard.tsx: deleteTeam, with the schema's ON DELETE CASCADE     *)
(***************************************************************************)
\* ON DELETE CASCADE of scores.team_id: the rows of the other teams stay
CascadeScores(B, id) ==
    [r \in {x \in BagToSet(B) : x.team_id # id} |-> CopiesIn(r, B)]

deleteTeam(id) ==
    /\ id \in {teamsTable[i].id : i \in 1..Len(teamsTable)}
    /\ teamsTable' = SelectSeq(teamsTable, LAMBDA t : t.id # id)
    /\ scoresTable' = CascadeScores(scoresTable, id)
    /\ commentsTable' = {c \in commentsTable : c.team_id # id}
    /\ UNCHANGED <<commentSeq, lbVars, authVars, judgeVars, teamVars, historyVars>>

(***************************************************************************)
(* TeamDashboard.tsx: fetchData                                            *)
(***************************************************************************)
\* no TeamDashboard is mounted
NoTeamDashboard ==
    /\ tdFetch = [s \in Sessions |-> {}]
    /\ tdPc = [s \in Sessions |-> "none"]
    /\ tdTotalScore = [s \in Sessions |-> 0]

scoresData_NoFilter(table, id) ==
    LET rows == SeqOfBag(table)
    IN  [i \in 1..Len(rows) |-> [score |-> rows[i].score, category_id |-> rows[i].category_id,
                                 judge_id |-> rows[i].judge_id]]
\* .from('scores').select('score, category_id, judge_id, ...').eq('team_id', user.id)
scoresData(table, id) ==
    LET rows == SelectSeq(SeqOfBag(table), LAMBDA r : r.team_id = id)
    IN  [i \in 1..Len(rows) |-> [score |-> rows[i].score, category_id |-> rows[i].category_id,
                                 judge_id |-> rows[i].judge_id]]

\* scoresData.reduce((sum, score) => sum + score.score, 0)
total(data) == Reduce(data, 0)

\* a fetchData call returns from its queries: if (scoresData) setTotalScore(total)
fetchData(s) ==
    /\ \E id \in tdFetch[s] :
          /\ tdFetch' = [tdFetch EXCEPT ![s] = @ \ {id}]
          /\ \/ /\ tdTotalScore' = [tdTotalScore EXCEPT ![s] = total(scoresData(scoresTable, id))]
                /\ tdPc' = [tdPc EXCEPT ![s] = "done"]
             \/ /\ tdPc' = [tdPc EXCEPT ![s] = "nodata"]        \* scoresData is null
                /\ UNCHANGED tdTotalScore
    /\ UNCHANGED <<storeVars, lbVars, authVars, judgeVars, historyVars>>

(***************************************************************************)
(* AuthContext.tsx (AuthProvider) and Login.tsx                            *)
(***************************************************************************)
\* the keys of an AuthUser in the order the object literals of signIn list them
KeyOrder == <<"role", "id", "name", "email">>

\* JSON.stringify(authUser): the keys the object has, each followed by its value
stringify(u) ==
    LET ks == SelectSeq(KeyOrder, LAMBDA k : k \in DOMAIN u)
    IN  [i \in 1..(2 * Len(ks)) |->
            IF i % 2 = 1 THEN ks[(i + 1) \div 2] ELSE u[ks[i \div 2]]]

\* JSON.parse(storedUser)
parse(text) ==
    LET n == Len(text) \div 2
    IN  [k \in {text[2 * i - 1] : i \in 1..n} |->
            text[2 * (CHOOSE i \in 1..n : text[2 * i - 1] = k)]]

\* the AuthUser objects that signIn and the listener build
JudgeUser(row) == [role |-> "judge", id |-> row.id, name |-> row.name]
TeamUser(row) == [role |-> "team", id |-> row.id, name |-> row.name]
AdminUser(au) == [role |-> "admin", id |-> au.id, name |-> "Admin", email |-> au.email]

\* the role that the guard effect of a route's page asks for
RoleOf(route) ==
    CASE route = "/admin" -> "admin"
      [] route = "/judge" -> "judge"
      [] route = "/team" -> "team"
      [] OTHER -> Null

\* the route a session ends on when it shows route with identity u: the effect
\* of a dashboard navigates to /login unless u has the dashboard's role
Guarded(route, u) ==
    IF RoleOf(route) # Null /\ (u = <<>> \/ u[1].role # RoleOf(route))
    THEN "/login" ELSE route

\* what a session shows after its identity became u or its route became route.
\* A JudgeDashboard that stays mounted runs its effect on user again; one that
\* is mounted starts from its useState values; one that is unmounted loses its
\* state, and the answers to its fetches set nothing.  A saveScores run in
\* flight goes on with the values it closed over.
Show(s, route, u) ==
    LET to == Guarded(route, u)
        stays == to = "/judge" /\ page[s] = "/judge"
    IN  /\ page' = [page EXCEPT ![s] = to]
        /\ mountFetch' = [mountFetch EXCEPT ![s] =
              IF stays
              THEN @ \cup {IF selectedTeam[s] = Null THEN "teams" ELSE "teams, selected",
                           "categories"}
              ELSE IF to = "/judge" THEN {"teams", "categories"} ELSE {}]
        /\ IF stays
           THEN UNCHANGED <<teams, categories, selectedTeam, formVars, loading,
                            scoresFetch, commentFetch, origin>>
           ELSE /\ teams' = [teams EXCEPT ![s] = <<>>]
                /\ categories' = [categories EXCEPT ![s] = <<>>]
                /\ selectedTeam' = [selectedTeam EXCEPT ![s] = Null]
                /\ scores' = [scores EXCEPT ![s] = EmptyMap]
                /\ comment' = [comment EXCEPT ![s] = <<>>]
                /\ existingComment' = [existingComment EXCEPT ![s] = <<>>]
                /\ loading' = [loading EXCEPT ![s] = FALSE]
                /\ scoresFetch' = [scoresFetch EXCEPT ![s] = {}]
                /\ commentFetch' = [commentFetch EXCEPT ![s] = {}]
                /\ origin' = [origin EXCEPT ![s] = NoOrigin]
        \* the TeamDashboard: its effect on user calls fetchData
        /\ tdFetch' = [tdFetch EXCEPT ![s] =
              IF to = "/team" THEN (IF page[s] = "/team" THEN @ ELSE {}) \cup {u[1].id}
              ELSE {}]
        /\ IF to = "/team" /\ page[s] = "/team"
           THEN UNCHANGED <<tdPc, tdTotalScore>>
           ELSE /\ tdPc' = [tdPc EXCEPT ![s] = "none"]
                /\ tdTotalScore' = [tdTotalScore EXCEPT ![s] = 0]
        /\ UNCHANGED run

\* what the last step of the AuthProvider of a session was
NoNotice == [op |-> "none", n |-> 0]

\* supabase.auth.signInWithPassword({email, password})
signInWithPassword(email, password) ==
    IF email = AdminAccount.email /\ password = AdminAccount.password
    THEN [error |-> "", user |-> <<[id |-> AdminAccount.id, email |-> AdminAccount.email]>>]
    ELSE [error |-> "Invalid login credentials", user |-> <<>>]

ByName_NoFilter(rows, name) ==
    IF rows = {} THEN maybeSingle(rows) ELSE maybeSingle({CHOOSE r \in rows : TRUE})
\* .from(table).select('*').eq('name', name).maybeSingle()
ByName(rows, name) == maybeSingle({r \in rows : r.name = name})

signIn_ExchangesUnchecked(role, credentials, lookup) ==
    LET fail(msg, called) ==
            [error |-> msg, authUser |-> <<>>, session |-> <<>>, exchange |-> called]
    IN  IF role = "admin"
        THEN LET r == signInWithPassword(credentials.email, credentials.password)
             IN  IF r.error # "" THEN fail(r.error, TRUE)
                 ELSE [error |-> "", authUser |-> <<AdminUser(r.user[1])>>,
                       session |-> r.user, exchange |-> TRUE]
        ELSE IF credentials.name = ""
             THEN fail(IF role = "judge" THEN "Name required for judge login"
                                         ELSE "Name required for team login", FALSE)
             ELSE IF lookup.error THEN fail("lookup failed", FALSE)
             ELSE IF lookup.data = <<>>
                  THEN fail(IF role = "judge" THEN "Judge not found" ELSE "Team not found",
                            FALSE)
                  ELSE [error |-> "",
                        authUser |-> <<IF role = "judge" THEN JudgeUser(lookup.data[1])
                                                         ELSE TeamUser(lookup.data[1])>>,
                        session |-> <<>>, exchange |-> FALSE]
\* signIn(role, credentials) against the answer the store gives to its lookup:
\* the error it throws ("" if none), the identity it sets, the session the
\* identity provider opens, and whether signInWithPassword was called
signIn(role, credentials, lookup) ==
    LET fail(msg, called) ==
            [error |-> msg, authUser |-> <<>>, session |-> <<>>, exchange |-> called]
    IN  IF role = "admin"
        THEN IF credentials.email = "" \/ credentials.password = ""
             THEN fail("Email and password required for admin login", FALSE)
             ELSE LET r == signInWithPassword(credentials.email, credentials.password)
                  IN  IF r.error # "" THEN fail(r.error, TRUE)
                      ELSE [error |-> "", authUser |-> <<AdminUser(r.user[1])>>,
                            session |-> r.user, exchange |-> TRUE]
        ELSE IF credentials.name = ""
             THEN fail(IF role = "judge" THEN "Name required for judge login"
                                         ELSE "Name required for team login", FALSE)
             ELSE IF lookup.error THEN fail("lookup failed", FALSE)
             ELSE IF lookup.data = <<>>
                  THEN fail(IF role = "judge" THEN "Judge not found" ELSE "Team not found",
                            FALSE)
                  ELSE [error |-> "",
                        authUser |-> <<IF role = "judge" THEN JudgeUser(lookup.data[1])
                                                         ELSE TeamUser(lookup.data[1])>>,
                        session |-> <<>>, exchange |-> FALSE]

\* the rows the lookup of a role reads
TableOf(role) == IF role = "judge" THEN judgesTable ELSE Range(teamsTable)

\* Login.handleSubmit: signIn, then the dashboard of the role, or the error shown
handleSubmit(s, role, credentials) ==
    /\ page[s] = "/login"
    /\ nAuth < MaxAuth
    /\ nAuth' = nAuth + 1
    /\ \E lookup \in {ByName(TableOf(role), credentials.name),
                      [error |-> TRUE, data |-> <<>>]} :
          LET r == signIn(role, credentials, lookup)
          IN  /\ notice' = [notice EXCEPT ![s] =
                    [op |-> "signIn", n |-> nAuth', role |-> role,
                     credentials |-> credentials, error |-> r.error,
                     exchange |-> r.exchange]]
              /\ IF r.error = ""
                 THEN /\ user' = [user EXCEPT ![s] = r.authUser]
                      /\ authSlot' = stringify(r.authUser[1])
                      /\ authSession' = IF role = "admin" THEN r.session ELSE authSession
                      /\ Show(s, "/" \o role, r.authUser)
                 ELSE UNCHANGED <<user, authSlot, authSession, page, judgeVars, teamVars>>
    /\ UNCHANGED <<storeVars, lbVars, signOutPending, judgesTable, historyVars>>

SignedOut_KeepsSlot(s) ==
    /\ user' = [user EXCEPT ![s] = <<>>]
    /\ Show(s, "/login", <<>>)
    /\ UNCHANGED authSlot
\* setUser(null); localStorage.removeItem('authUser'); then handleSignOut's
\* navigate('/login')
SignedOut(s) ==
    /\ user' = [user EXCEPT ![s] = <<>>]
    /\ authSlot' = <<>>
    /\ Show(s, "/login", <<>>)

\* handleSignOut of a dashboard: signOut up to its await, or to its end when the
\* identity is no administrator
signOut(s) ==
    /\ RoleOf(page[s]) # Null
    /\ s \notin signOutPending
    /\ nAuth < MaxAuth
    /\ nAuth' = nAuth + 1
    /\ IF user[s] # <<>> /\ user[s][1].role = "admin"
       THEN /\ signOutPending' = signOutPending \cup {s}
            \* supabase.auth.signOut() ends the session, or fails and leaves it
            /\ authSession' \in {<<>>, authSession}
            /\ notice' = [notice EXCEPT ![s] = [op |-> "signOutCalled", n |-> nAuth']]
            /\ UNCHANGED <<user, authSlot, page, judgeVars, teamVars>>
       ELSE /\ SignedOut(s)
            /\ notice' = [notice EXCEPT ![s] = [op |-> "signOut", n |-> nAuth']]
            /\ UNCHANGED <<signOutPending, authSession>>
    /\ UNCHANGED <<storeVars, lbVars, judgesTable, historyVars>>

\* supabase.auth.signOut() has returned: the rest of signOut
signOutReturn(s) ==
    /\ s \in signOutPending
    /\ signOutPending' = signOutPending \ {s}
    /\ SignedOut(s)
    /\ notice' = [notice EXCEPT ![s] = [op |-> "signOut", n |-> nAuth]]
    /\ UNCHANGED <<storeVars, lbVars, authSession, judgesTable, nAuth, historyVars>>

\* the listener of onAuthStateChange is called with a session
onAuthStateChange(s, session) ==
    /\ nAuth < MaxAuth
    /\ nAuth' = nAuth + 1
    /\ notice' = [notice EXCEPT ![s] = [op |-> "notified", n |-> nAuth', session |-> session]]
    /\ IF session # <<>>
       THEN LET authUser == AdminUser(session[1])
            IN  /\ user' = [user EXCEPT ![s] = <<authUser>>]
                /\ authSlot' = stringify(authUser)
                /\ Show(s, page[s], <<authUser>>)
       ELSE IF authSlot # <<>> /\ parse(authSlot).role # "admin"
            THEN /\ user' = [user EXCEPT ![s] = <<parse(authSlot)>>]
                 /\ Show(s, page[s], <<parse(authSlot)>>)
                 /\ UNCHANGED authSlot
            ELSE UNCHANGED <<user, authSlot, page, judgeVars, teamVars>>
    /\ UNCHANGED <<storeVars, lbVars, authSession, signOutPending, judgesTable, historyVars>>

\* the identity provider notifies a session: of the session it has now, or,
\* late, of the end of a session
notification(s) ==
    \E session \in {authSession, <<>>} : onAuthStateChange(s, session)

\* a tab is loaded anew: useState(null), the guard effect of its page runs
\* before the effect of the AuthProvider reads localStorage
startup(s) ==
    /\ run[s].pc # "saving"
    /\ s \notin signOutPending
    /\ nAuth < MaxAuth
    /\ nAuth' = nAuth + 1
    /\ notice' = [notice EXCEPT ![s] = [op |-> "startup", n |-> nAuth']]
    /\ user' = [user EXCEPT ![s] = IF authSlot = <<>> THEN <<>> ELSE <<parse(authSlot)>>]
    /\ Show(s, Guarded(page[s], <<>>), <<>>)
    /\ UNCHANGED <<storeVars, lbVars, authSlot, authSession, signOutPending, judgesTable,
                   historyVars>>

\* onClick={() => navigate('/login')} of the Leaderboard page
openLogin(s) ==
    /\ page[s] = "/"
    /\ Show(s, "/login", user[s])
    /\ UNCHANGED <<storeVars, lbVars, user, authSlot, authSession, signOutPending,
                   judgesTable, notice, nAuth, historyVars>>

\* onClick={() => navigate('/')} of a dashboard: the Leaderboard page mounts
viewLeaderboard(s) ==
    /\ RoleOf(page[s]) # Null
    /\ Show(s, "/", user[s])
    /\ lbPc' = "scores"
    /\ lbScores' = <<>>
    /\ lbTeams' = <<>>
    /\ leaderboard' = <<>>
    /\ lbLoading' = TRUE
    /\ UNCHANGED <<storeVars, user, authSlot, authSession, signOutPending,
                   judgesTable, notice, nAuth, historyVars>>

\* the sessions hold the identities of the judges f[s] and show route
SignedIn(f, route) ==
    /\ user = [s \in Sessions |-> <<JudgeUser(JudgeRow(f[s]))>>]
    /\ authSlot = stringify(JudgeUser(JudgeRow(f["s2"])))
    /\ authSession = <<>>
    /\ signOutPending = {}
    /\ page = [s \in Sessions |-> route]
    /\ judgesTable = {JudgeRow(j) : j \in Judges}
    /\ notice = [s \in Sessions |-> NoNotice]
    /\ nAuth = 0

(***************************************************************************)
(* Specifications of the judge sessions                                    *)
(***************************************************************************)
\* the inputs typed into a score field and into the comment field
ScoreInputs == {<<>>, <<"-", "1">>, <<"1">>, <<"9">>}
CommentInputs == {<<>>, <<" ">>, <<"o", "k", " ">>, <<" ", "n", "o">>}
DirectScores == {0 - 1, MaxScore + 1}

JudgeInit ==
    /\ teams = [s \in Sessions |-> <<>>]
    /\ categories = [s \in Sessions |-> <<>>]
    /\ selectedTeam = [s \in Sessions |-> Null]
    /\ scores = [s \in Sessions |-> EmptyMap]
    /\ comment = [s \in Sessions |-> <<>>]
    /\ existingComment = [s \in Sessions |-> <<>>]
    /\ loading = [s \in Sessions |-> FALSE]
    /\ mountFetch = [s \in Sessions |-> {"teams", "categories"}]
    /\ scoresFetch = [s \in Sessions |-> {}]
    /\ commentFetch = [s \in Sessions |-> {}]
    /\ run = [s \in Sessions |-> Idle]
    /\ origin = [s \in Sessions |-> NoOrigin]
    /\ NoTeamDashboard
    /\ submitted = <<>>
    /\ commentLog = [s \in Sessions |-> <<>>]
    /\ nInputs = [s \in Sessions |-> 0]
    /\ nDirect = 0

\* the store after the migration and the admin's addTeam calls, no leaderboard run
StoreInit ==
    /\ teamsTable = <<TeamRow(JudgeTeams[2]), TeamRow(JudgeTeams[1])>>
    /\ scoresTable = EmptyBag
    /\ lbPc = "scores"
    /\ lbScores = <<>>
    /\ lbTeams = <<>>
    /\ leaderboard = <<>>
    /\ lbLoading = TRUE

\* a comment row that an earlier session of judge j1 left for the first team
EarlierComment ==
    [id |-> 0, team_id |-> JudgeTeams[1], judge_id |-> "j1", comment |-> <<"o", "k">>]

Init ==
    /\ StoreInit
    /\ commentsTable \in {{}, {EarlierComment}}
    /\ commentSeq = 0
    /\ JudgeInit
    /\ SignedIn([s \in Sessions |-> IF s = "s1" THEN "j1" ELSE "j2"], "/judge")

\* the answers of the store to the calls of a session
Answer(s) ==
    \/ fetchTeamsReturn(s)
    \/ fetchCategoriesReturn(s)
    \/ fetchScoresForTeamQuery(s)
    \/ fetchScoresForTeamReturn(s)
    \/ fetchCommentForTeamQuery(s)
    \/ fetchCommentForTeamReturn(s)
    \/ saveScoresWrite(s)

\* the inputs of the user of a session, as long as the session has inputs left
typeScore(s, inputs) ==
    /\ nInputs[s] < MaxInputs
    /\ \E i \in 1..Len(CategoryRows) : \E str \in inputs : onChange(s, i, str)

typeComment(s) ==
    /\ nInputs[s] < MaxInputs
    /\ \E str \in CommentInputs : setComment(s, str)

clickSave(s) ==
    /\ nInputs[s] < MaxInputs
    /\ saveScores(s)

\* one judge session
Next ==
    \/ Answer("s1")
    \/ typeScore("s1", ScoreInputs)
    \/ typeComment("s1")
    \/ clickSave("s1")

Spec == Init /\ [][Next]_vars

\* one judge session and a caller outside the dashboards
DirectRows ==
    {[team_id |-> JudgeTeams[1], judge_id |-> "j1", category_id |-> CategoryRows[1].id,
      score |-> v] : v \in DirectScores}

outsideWrite ==
    /\ nDirect < MaxDirect
    /\ \E row \in DirectRows : directWrite(row)

NextOpen ==
    \/ Next
    \/ outsideWrite

SpecOpen == Init /\ [][NextOpen]_vars

\* two judge sessions whose dashboards have loaded: the mount fetches and the
\* fetches of the first team have returned from the empty store; the answers to
\* the re-fetches of their saveScores runs stay in flight
Loaded(known) ==
    /\ teams = [s \in Sessions |-> OrderByName(teamsTable)]
    /\ categories = [s \in Sessions |-> OrderByName(CategoryRows)]
    /\ selectedTeam = [s \in Sessions |-> JudgeTeams[1]]
    /\ scores = [s \in Sessions |-> EmptyMap]
    /\ comment = [s \in Sessions |-> IF known[s] = <<>> THEN <<>> ELSE known[s][1].comment]
    /\ existingComment = known
    /\ loading = [s \in Sessions |-> FALSE]
    /\ mountFetch = [s \in Sessions |-> {}]
    /\ scoresFetch = [s \in Sessions |-> {}]
    /\ commentFetch = [s \in Sessions |-> {}]
    /\ run = [s \in Sessions |-> Idle]
    /\ origin = [s \in Sessions |-> [scores |-> EmptyMap, comment |-> JudgeTeams[1]]]
    /\ NoTeamDashboard
    /\ submitted = <<>>
    /\ commentLog = [s \in Sessions |-> <<>>]
    /\ nInputs = [s \in Sessions |-> 0]
    /\ nDirect = 0

LoadedInit == Loaded([s \in Sessions |-> <<>>])

InitTwo ==
    /\ StoreInit
    /\ commentsTable = {}
    /\ commentSeq = 0
    /\ LoadedInit
    /\ \E j \in Judges : SignedIn([s \in Sessions |-> IF s = "s1" THEN "j1" ELSE j], "/judge")

TwoInputs == {<<"0">>, <<"9">>}

NextTwo ==
    \E s \in Sessions :
        \/ saveScoresWrite(s)
        \/ clickSave(s)
        \/ typeScore(s, TwoInputs)

SpecTwo == InitTwo /\ [][NextTwo]_vars

(***************************************************************************)
(* Specification of two tabs of one judge: both dashboards have loaded     *)
(* while the judge had no comment row, and both submit comments            *)
(***************************************************************************)
InitRace ==
    /\ StoreInit
    /\ commentsTable = {}
    /\ commentSeq = 0
    /\ LoadedInit
    /\ SignedIn([s \in Sessions |-> "j1"], "/judge")

NextRace ==
    \E s \in Sessions :
        \/ saveScoresWrite(s)
        \/ clickSave(s)
        \/ typeComment(s)

SpecRace == InitRace /\ [][NextRace]_vars

(***************************************************************************)
(* Specification of two judge sessions over a store that has got rows of   *)
(* the other team, of the other judge and of the other category since the  *)
(* dashboards loaded                                                       *)
(***************************************************************************)
OtherRows ==
    {[team_id |-> JudgeTeams[2], judge_id |-> "j1", category_id |-> CategoryRows[1].id,
      score |-> 1],
     [team_id |-> JudgeTeams[1], judge_id |-> "j2", category_id |-> CategoryRows[1].id,
      score |-> 1],
     [team_id |-> JudgeTeams[1], judge_id |-> "j1", category_id |-> CategoryRows[2].id,
      score |-> 1]}

InitFrame ==
    /\ teamsTable = <<TeamRow(JudgeTeams[2]), TeamRow(JudgeTeams[1])>>
    /\ scoresTable = SetToBag(OtherRows)
    /\ lbPc = "scores"
    /\ lbScores = <<>>
    /\ lbTeams = <<>>
    /\ leaderboard = <<>>
    /\ lbLoading = TRUE
    /\ commentsTable = {}
    /\ commentSeq = 0
    /\ LoadedInit
    /\ SignedIn([s \in Sessions |-> IF s = "s1" THEN "j1" ELSE "j2"], "/judge")

SpecFrame == InitFrame /\ [][NextTwo]_vars

(***************************************************************************)
(* Specification of a judge session that changes the selected team: the    *)
(* judge has a comment row and no score row for the first team, and a      *)
(* score row for the second team                                           *)
(***************************************************************************)
SelectInputs == {<<"9">>}

InitSelect ==
    /\ teamsTable = <<TeamRow(JudgeTeams[2]), TeamRow(JudgeTeams[1])>>
    /\ scoresTable = SetToBag({[team_id |-> JudgeTeams[2], judge_id |-> "j1",
                                category_id |-> CategoryRows[1].id, score |-> 1]})
    /\ lbPc = "scores"
    /\ lbScores = <<>>
    /\ lbTeams = <<>>
    /\ leaderboard = <<>>
    /\ lbLoading = TRUE
    /\ commentsTable = {EarlierComment}
    /\ commentSeq = 0
    /\ JudgeInit
    /\ SignedIn([s \in Sessions |-> IF s = "s1" THEN "j1" ELSE "j2"], "/judge")

\* a click on the button of a team
chooseTeam(s) ==
    /\ nInputs[s] < MaxInputs
    /\ \E i \in 1..Len(teams[s]) : selectTeam(s, i)

NextSelect ==
    \/ Answer("s1")
    \/ chooseTeam("s1")
    \/ typeScore("s1", SelectInputs)
    \/ typeComment("s1")
    \/ clickSave("s1")

SpecSelect == InitSelect /\ [][NextSelect]_vars

\* the store answers every write that a run awaits, with success or an error
SpecFrameLive == SpecFrame /\ \A s \in Sessions : WF_vars(saveScoresWrite(s))

(***************************************************************************)
(* Specification of the identities: the tabs of one browser start on the   *)
(* Login page with no identity                                             *)
(***************************************************************************)
\* what is typed into the fields of the Login form for a role
NameInputs == {"", "Ann", "ann", "Alpha"}
AdminInputs == {<<"admin@x", "pw">>, <<"admin@x", "no">>, <<"", "pw">>, <<"admin@x", "">>}
LoginInputs ==
    {<<"admin", [email |-> c[1], password |-> c[2], name |-> ""]>> : c \in AdminInputs}
    \cup {<<role, [email |-> "", password |-> "", name |-> n]>> :
             role \in {"judge", "team"}, n \in NameInputs}

\* no JudgeDashboard is mounted
NoDashboard ==
    /\ teams = [s \in Sessions |-> <<>>]
    /\ categories = [s \in Sessions |-> <<>>]
    /\ selectedTeam = [s \in Sessions |-> Null]
    /\ scores = [s \in Sessions |-> EmptyMap]
    /\ comment = [s \in Sessions |-> <<>>]
    /\ existingComment = [s \in Sessions |-> <<>>]
    /\ loading = [s \in Sessions |-> FALSE]
    /\ mountFetch = [s \in Sessions |-> {}]
    /\ scoresFetch = [s \in Sessions |-> {}]
    /\ commentFetch = [s \in Sessions |-> {}]
    /\ run = [s \in Sessions |-> Idle]
    /\ origin = [s \in Sessions |-> NoOrigin]
    /\ NoTeamDashboard
    /\ submitted = <<>>
    /\ commentLog = [s \in Sessions |-> <<>>]
    /\ nInputs = [s \in Sessions |-> 0]
    /\ nDirect = 0

InitAuth ==
    /\ StoreInit
    /\ commentsTable = {}
    /\ commentSeq = 0
    /\ NoDashboard
    /\ user = [s \in Sessions |-> <<>>]
    /\ authSlot = <<>>
    /\ authSession = <<>>
    /\ signOutPending = {}
    /\ page = [s \in Sessions |-> "/login"]
    /\ judgesTable = {JudgeRow(j) : j \in Judges}
    /\ notice = [s \in Sessions |-> NoNotice]
    /\ nAuth = 0

submitLogin(s) ==
    \E in \in LoginInputs : handleSubmit(s, in[1], in[2])

NextAuth ==
    \/ \E s \in Sessions :
          \/ submitLogin(s)
          \/ signOut(s)
          \/ signOutReturn(s)
          \/ notification(s)
          \/ startup(s)
          \/ openLogin(s)
          \/ viewLeaderboard(s)
    \/ FetchLeaderboardScores
    \/ FetchLeaderboardTeams

SpecAuth == InitAuth /\ [][NextAuth]_vars

(***************************************************************************)
(* Specification of the identities of a browser whose first tab has signed *)
(* in as administrator and then, from the Login page, as judge: the session*)
(* of the identity provider is still active                                *)
(***************************************************************************)
InitActive ==
    /\ StoreInit
    /\ commentsTable = {}
    /\ commentSeq = 0
    /\ teams = [s \in Sessions |-> <<>>]
    /\ categories = [s \in Sessions |-> <<>>]
    /\ selectedTeam = [s \in Sessions |-> Null]
    /\ scores = [s \in Sessions |-> EmptyMap]
    /\ comment = [s \in Sessions |-> <<>>]
    /\ existingComment = [s \in Sessions |-> <<>>]
    /\ loading = [s \in Sessions |-> FALSE]
    /\ mountFetch = [s \in Sessions |-> IF s = "s1" THEN {"teams", "categories"} ELSE {}]
    /\ scoresFetch = [s \in Sessions |-> {}]
    /\ commentFetch = [s \in Sessions |-> {}]
    /\ run = [s \in Sessions |-> Idle]
    /\ origin = [s \in Sessions |-> NoOrigin]
    /\ NoTeamDashboard
    /\ submitted = <<>>
    /\ commentLog = [s \in Sessions |-> <<>>]
    /\ nInputs = [s \in Sessions |-> 0]
    /\ nDirect = 0
    /\ user = [s \in Sessions |-> IF s = "s1" THEN <<JudgeUser(JudgeRow("j1"))>> ELSE <<>>]
    /\ authSlot = stringify(JudgeUser(JudgeRow("j1")))
    /\ authSession = signInWithPassword(AdminAccount.email, AdminAccount.password).user
    /\ signOutPending = {}
    /\ page = [s \in Sessions |-> IF s = "s1" THEN "/judge" ELSE "/login"]
    /\ judgesTable = {JudgeRow(j) : j \in Judges}
    /\ notice = [s \in Sessions |-> NoNotice]
    /\ nAuth = 0

SpecActive == InitActive /\ [][NextAuth]_vars

(***************************************************************************)
(* Specification of a judge session in a tab of a browser whose other tab  *)
(* has signed in as another judge after it (localStorage holds the         *)
(* identity of the second tab), with notifications of the identity provider*)
(***************************************************************************)
SwitchInputs == {<<"1">>}

NextSwitch ==
    \/ Answer("s1")
    \/ typeScore("s1", SwitchInputs)
    \/ typeComment("s1")
    \/ clickSave("s1")
    \/ notification("s1")

\* the dashboard of the first tab has loaded the earlier comment of its judge
InitSwitch ==
    /\ StoreInit
    /\ commentsTable = {EarlierComment}
    /\ commentSeq = 0
    /\ Loaded([s \in Sessions |-> IF s = "s1" THEN <<EarlierComment>> ELSE <<>>])
    /\ SignedIn([s \in Sessions |-> IF s = "s1" THEN "j1" ELSE "j2"], "/judge")

SpecSwitch == InitSwitch /\ [][NextSwitch]_vars

(***************************************************************************)
(* Specification of the leaderboard runs: the store starts in any state    *)
(* the schema admits for the bounded row sets                              *)
(***************************************************************************)
\* one judge's score rows of the teams of a store: each (team, category) has a row or none
StoreOf(f) ==
    SetToBag({ [team_id |-> k[1], judge_id |-> "j1", category_id |-> k[2], score |-> f[k]] :
               k \in DOMAIN f })

InitRank ==
    /\ \E sub \in SUBSET AllTeams : \E p \in Perms(sub) :
          /\ teamsTable = [i \in 1..Len(p) |-> TeamRow(p[i])]
          /\ \E K \in SUBSET (sub \X CategoryIds) : \E f \in [K -> 0..MaxRankScore] :
                scoresTable = StoreOf(f)
    /\ commentsTable = {}
    /\ commentSeq = 0
    /\ lbPc = "scores"
    /\ lbScores = <<>>
    /\ lbTeams = <<>>
    /\ leaderboard = <<>>
    /\ lbLoading = TRUE
    /\ JudgeInit
    /\ SignedIn([s \in Sessions |-> IF s = "s1" THEN "j1" ELSE "j2"], "/")

NextRank ==
    \/ FetchLeaderboardScores
    \/ FetchLeaderboardTeams
    \/ LeaderboardMount
    \/ \E id \in AllTeams : deleteTeam(id)

SpecRank == InitRank /\ [][NextRank]_vars

(***************************************************************************)
(* Specification of a TeamDashboard and a Leaderboard over one store: a    *)
(* team of the store has signed in, the store is in any state the schema   *)
(* admits for the bounded row sets and stays as it is                      *)
(***************************************************************************)
InitTeam ==
    /\ \E sub \in SUBSET AllTeams : \E p \in Perms(sub) :
          /\ teamsTable = [i \in 1..Len(p) |-> TeamRow(p[i])]
          /\ \E K \in SUBSET (sub \X CategoryIds) : \E f \in [K -> 0..MaxRankScore] :
                scoresTable = StoreOf(f)
          /\ \E t \in sub :
                /\ user = [s \in Sessions |-> IF s = "s1" THEN <<TeamUser(TeamRow(t))>> ELSE <<>>]
                /\ authSlot = stringify(TeamUser(TeamRow(t)))
                /\ tdFetch = [s \in Sessions |-> IF s = "s1" THEN {t} ELSE {}]
    /\ tdPc = [s \in Sessions |-> "none"]
    /\ tdTotalScore = [s \in Sessions |-> 0]
    /\ commentsTable = {}
    /\ commentSeq = 0
    /\ lbPc = "scores"
    /\ lbScores = <<>>
    /\ lbTeams = <<>>
    /\ leaderboard = <<>>
    /\ lbLoading = TRUE
    /\ teams = [s \in Sessions |-> <<>>]
    /\ categories = [s \in Sessions |-> <<>>]
    /\ selectedTeam = [s \in Sessions |-> Null]
    /\ scores = [s \in Sessions |-> EmptyMap]
    /\ comment = [s \in Sessions |-> <<>>]
    /\ existingComment = [s \in Sessions |-> <<>>]
    /\ loading = [s \in Sessions |-> FALSE]
    /\ mountFetch = [s \in Sessions |-> {}]
    /\ scoresFetch = [s \in Sessions |-> {}]
    /\ commentFetch = [s \in Sessions |-> {}]
    /\ run = [s \in Sessions |-> Idle]
    /\ origin = [s \in Sessions |-> NoOrigin]
    /\ submitted = <<>>
    /\ commentLog = [s \in Sessions |-> <<>>]
    /\ nInputs = [s \in Sessions |-> 0]
    /\ nDirect = 0
    /\ authSession = <<>>
    /\ signOutPending = {}
    /\ page = [s \in Sessions |-> IF s = "s1" THEN "/team" ELSE "/"]
    /\ judgesTable = {JudgeRow(j) : j \in Judges}
    /\ notice = [s \in Sessions |-> NoNotice]
    /\ nAuth = 0

NextTeam ==
    \/ fetchData("s1")
    \/ FetchLeaderboardScores
    \/ FetchLeaderboardTeams
    \/ LeaderboardMount

SpecTeam == InitTeam /\ [][NextTeam]_vars

(***************************************************************************)
(* Properties of the leaderboard runs (SpecRank)                           *)
(***************************************************************************)
RECURSIVE SumAt(_, _)
\* sum of the score fields of the rows of S at the positions I
SumAt(S, I) ==
    IF I = {} THEN 0
    ELSE LET i == CHOOSE x \in I : TRUE
         IN  S[i].score + SumAt(S, I \ {i})

RowsOfTeam(S, id) == {i \in 1..Len(S) : S[i].team_id = id}
TeamIds(T) == {T[i].id : i \in 1..Len(T)}
EntriesOf(L, id) == {k \in 1..Len(L) : L[k].team_id = id}
PosInTeams(T, id) == CHOOSE i \in 1..Len(T) : T[i].id = id

\* C1: the computed leaderboard has exactly one entry per fetched team and no
\* other entry, and an entry's total_score is the sum of the score fields of the
\* fetched score rows of that team (0 without rows); rows of no fetched team
\* count for nobody.
C1_OneEntryPerTeamWithItsSum ==
    lbPc = "done" =>
        /\ Len(leaderboard) = Len(lbTeams)
        /\ \A id \in TeamIds(lbTeams) : Cardinality(EntriesOf(leaderboard, id)) = 1
        /\ \A k \in 1..Len(leaderboard) :
              /\ leaderboard[k].team_id \in TeamIds(lbTeams)
              /\ leaderboard[k].total_score =
                     SumAt(lbScores, RowsOfTeam(lbScores, leaderboard[k].team_id))

\* a finished run over two or more teams, one with rows, one without, and a
\* fetched score row of a team that the teams fetch no longer returned
C1_Witness ==
    /\ lbPc = "done"
    /\ Len(lbTeams) >= 2
    /\ \E id \in TeamIds(lbTeams) : RowsOfTeam(lbScores, id) = {}
    /\ \E id \in TeamIds(lbTeams) : Cardinality(RowsOfTeam(lbScores, id)) = 2
    /\ \E i \in 1..Len(lbScores) :
          lbScores[i].team_id \notin TeamIds(lbTeams) /\ lbScores[i].score > 0

\* C2: the leaderboard is sorted non-increasing by total_score.
C2_SortedNonIncreasing ==
    lbPc = "done" =>
        \A k \in 1..(Len(leaderboard) - 1) :
            leaderboard[k].total_score >= leaderboard[k + 1].total_score

\* a finished run over three teams whose fetched order was not sorted
C2_Witness ==
    /\ lbPc = "done"
    /\ Len(leaderboard) = 3
    /\ leaderboard[1].total_score > leaderboard[3].total_score
    /\ PosInTeams(lbTeams, leaderboard[1].team_id) = 3

\* C3: the rank of the entry at position i is i, and of two teams with equal
\* totals the one fetched first has the smaller rank.
C3_PositionalRankStableTies ==
    lbPc = "done" =>
        /\ \A k \in 1..Len(leaderboard) : leaderboard[k].rank = k
        /\ \A k, m \in 1..Len(leaderboard) :
              ( /\ leaderboard[k].total_score = leaderboard[m].total_score
                /\ PosInTeams(lbTeams, leaderboard[k].team_id)
                      < PosInTeams(lbTeams, leaderboard[m].team_id) )
              => leaderboard[k].rank < leaderboard[m].rank

\* a finished run in which two teams tie behind a team that was fetched last
C3_Witness ==
    /\ lbPc = "done"
    /\ Len(leaderboard) = 3
    /\ leaderboard[2].total_score = leaderboard[3].total_score
    /\ leaderboard[1].total_score > leaderboard[2].total_score
    /\ PosInTeams(lbTeams, leaderboard[1].team_id) = 3
    /\ leaderboard[2].rank = 2 /\ leaderboard[3].rank = 3

\* C8: a team without score rows has an entry with total 0 whose rank is
\* greater than the rank of every entry with a total above 0.
C8_ZeroRowTeamRankedBelowScored ==
    lbPc = "done" =>
        \A id \in TeamIds(lbTeams) :
            RowsOfTeam(lbScores, id) = {} =>
                \E k \in 1..Len(leaderboard) :
                    /\ leaderboard[k].team_id = id
                    /\ leaderboard[k].total_score = 0
                    /\ \A m \in 1..Len(leaderboard) :
                          leaderboard[m].total_score > 0 =>
                              leaderboard[m].rank < leaderboard[k].rank

\* a finished run in which the team fetched first has no rows and a team
\* fetched after it has a positive total
C8_Witness ==
    /\ lbPc = "done"
    /\ Len(lbTeams) >= 2
    /\ RowsOfTeam(lbScores, lbTeams[1].id) = {}
    /\ \E k \in 1..Len(leaderboard) : leaderboard[k].total_score > 0

(***************************************************************************)
(* Properties of the judge sessions                                        *)
(***************************************************************************)
RECURSIVE SumCopies(_, _)
\* number of rows of a bag among the rows R
SumCopies(B, R) ==
    IF R = {} THEN 0
    ELSE LET r == CHOOSE x \in R : TRUE
         IN  CopiesIn(r, B) + SumCopies(B, R \ {r})

RowsOfKey(B, team, judge, category) ==
    {r \in BagToSet(B) : r.team_id = team /\ r.judge_id = judge /\ r.category_id = category}

KeyCount(B, team, judge, category) == SumCopies(B, RowsOfKey(B, team, judge, category))

Last(h) == h[Len(h)]

\* C4: the scores table holds at most one row per (team_id, judge_id,
\* category_id), whatever saveScores runs of the sessions have been applied
\* and however their writes interleave.
C4_OneScoreRowPerTriple ==
    \A r \in BagToSet(scoresTable) :
        KeyCount(scoresTable, r.team_id, r.judge_id, r.category_id) <= 1

\* two sessions of one judge have both saved a score for the same category of
\* the same team, with different values
C4_Witness ==
    /\ user["s1"] = user["s2"]
    /\ run["s1"].pc = "saved" /\ run["s2"].pc = "saved"
    /\ run["s1"].team = run["s2"].team
    /\ \E c \in (DOMAIN run["s1"].scores) \cap (DOMAIN run["s2"].scores) :
          /\ run["s1"].scores[c] # run["s2"].scores[c]
          /\ KeyCount(scoresTable, run["s1"].team, UserId("s1"), c) = 1

MaxScoreOf(c) == CategoryRows[CategoryOf(CategoryRows, c)].max_score

\* C5: every score value that saveScores has written lies in 0..max_score of
\* its category, also when the scores state it saves was loaded from the store.
C5_SavedScoresInRange ==
    \A k \in DOMAIN submitted :
        \A i \in 1..Len(submitted[k]) :
            0 <= submitted[k][i] /\ submitted[k][i] <= MaxScoreOf(k[3])

\* a successful upsert step of the saveScores run of session s
UpsertStep(s) ==
    /\ run[s].pc = "saving"
    /\ run[s].pos <= Len(run[s].categories)
    /\ run'[s] # run[s]
    /\ run'[s].pc # "failed"

UpsertCategory(s) == run[s].categories[run[s].pos].id

\* C6: when saveScores upserts, for a (team, judge, category), the value it
\* upserted there last time, the table afterwards holds one row of that triple
\* and the row has that value.
C6_ResubmitIdempotent ==
    [][\A s \in Sessions :
          LET c == UpsertCategory(s)
              k == <<run[s].team, UserId(s), c>>
          IN  ( /\ UpsertStep(s)
                /\ k \in DOMAIN submitted
                /\ Last(submitted[k]) = run[s].scores[c] )
              => /\ KeyCount(scoresTable', k[1], k[2], k[3]) = 1
                 /\ \A r \in RowsOfKey(scoresTable', k[1], k[2], k[3]) :
                       r.score = run[s].scores[c]
                 /\ scoresTable' = scoresTable]_vars

\* a session has saved the same value for a triple twice in a row, its second
\* run has finished
C6_Witness ==
    \E s \in Sessions : \E c \in DOMAIN run[s].scores :
        LET k == <<run[s].team, UserId(s), c>>
        IN  /\ run[s].pc = "saved"
            /\ k \in DOMAIN submitted
            /\ Len(submitted[k]) = 2
            /\ submitted[k][1] = submitted[k][2]
            /\ submitted[k][2] > 0
            /\ KeyCount(scoresTable, k[1], k[2], k[3]) = 1

\* the ranking that fetchLeaderboard computes from the store of this state
LeaderboardNow ==
    rankedData(Sort(teamScores(SelectScores(scoresTable), SelectTeams(teamsTable))))

RECURSIVE SumLast(_, _)
\* sum of the most recently submitted values of the triples K
SumLast(hist, K) ==
    IF K = {} THEN 0
    ELSE LET k == CHOOSE x \in K : TRUE
         IN  Last(hist[k]) + SumLast(hist, K \ {k})

SubmittedTotal(team) == SumLast(submitted, {k \in DOMAIN submitted : k[1] = team})

\* C7: the leaderboard total of every team is the sum, over the (judge,
\* category) pairs that submitted a score for it, of the value submitted last.
C7_TotalIsSumOfLatestSubmissions ==
    /\ Len(LeaderboardNow) = Len(teamsTable)
    /\ \A i \in 1..Len(LeaderboardNow) :
          LeaderboardNow[i].total_score = SubmittedTotal(LeaderboardNow[i].team_id)

\* two judges have each submitted both categories for the first team, with
\* values that are not all equal
C7_Witness ==
    /\ user["s1"] # user["s2"]
    /\ \A s \in Sessions : \A c \in CategoryIds :
          <<JudgeTeams[1], UserId(s), c>> \in DOMAIN submitted
    /\ SubmittedTotal(JudgeTeams[1]) = 3 * MaxScore
    /\ \E i \in 1..Len(LeaderboardNow) :
          /\ LeaderboardNow[i].team_id = JudgeTeams[1]
          /\ LeaderboardNow[i].total_score = 3 * MaxScore

\* C9: a judge without earlier comment row who has submitted the same comment
\* text for a team twice from one session leaves at most one comment row for
\* that (team, judge) pair.
C9_SameCommentTwiceOneRow ==
    \A s \in Sessions :
        ( /\ ~(\E c \in commentsTable : c.id = EarlierComment.id)
          /\ run[s].pc = "saved"
          /\ Len(commentLog[s]) = 2
          /\ commentLog[s][1].team = commentLog[s][2].team
          /\ commentLog[s][1].comment = commentLog[s][2].comment )
        => Cardinality(CommentsOf(commentsTable, commentLog[s][1].team, UserId(s))) <= 1

\* the comment that the saveScores step of a session works with
RunComment(s) == IF run[s].pc = "saving" THEN run[s].comment ELSE comment[s]

\* a text of blanks only, which is what trimming leaves empty
IsBlank(str) == \A i \in 1..Len(str) : str[i] = " "

\* C10: a saveScores submission whose comment is empty after trimming leaves
\* the comments table unchanged.
C10_BlankCommentWritesNothing ==
    [][\A s \in Sessions :
          (run'[s] # run[s] /\ IsBlank(RunComment(s)))
          => commentsTable' = commentsTable]_vars

\* a run that has saved a score has finished with a comment of blanks while
\* the known comment row of the pair is still in the table as it was
C10_Witness ==
    \E s \in Sessions :
        /\ run[s].pc = "saved"
        /\ run[s].comment = <<" ">>
        /\ run[s].existingComment = <<EarlierComment>>
        /\ DOMAIN run[s].scores # {}
        /\ commentsTable = {EarlierComment}

\* the comment write of the saveScores run of session s returns without error
CommentStep(s) ==
    /\ run[s].pc = "saving"
    /\ run[s].pos = Len(run[s].categories) + 1
    /\ run'[s].pc = "saved"

\* the text of str without the blanks at its two ends
Trimmed(str) ==
    IF IsBlank(str) THEN <<>>
    ELSE LET a == CHOOSE i \in 1..Len(str) :
                      str[i] # " " /\ \A k \in 1..(i - 1) : str[k] = " "
             b == CHOOSE i \in 1..Len(str) :
                      str[i] # " " /\ \A k \in (i + 1)..Len(str) : str[k] = " "
         IN  SubSeq(str, a, b)

\* C11: the comment write of a saveScores run with a comment that is not blank:
\* with a known earlier comment (existingComment set) the row of that id gets
\* the trimmed text, every other row stays and the number of rows stays;
\* without one, the table gains exactly one row, of the selected team, the
\* acting judge and the trimmed text.
C11_CommentUpdatedInPlaceOrInserted ==
    [][\A s \in Sessions :
          CommentStep(s) =>
              LET r == run[s]
                  text == Trimmed(r.comment)
              IN  IF r.existingComment # <<>>
                  THEN /\ Cardinality(commentsTable') = Cardinality(commentsTable)
                       /\ \E c \in commentsTable' :
                             c.id = r.existingComment[1].id /\ c.comment = text
                       /\ \A c \in commentsTable :
                             c.id # r.existingComment[1].id => c \in commentsTable'
                  ELSE /\ commentsTable \subseteq commentsTable'
                       /\ Cardinality(commentsTable' \ commentsTable) = 1
                       /\ \A c \in commentsTable' \ commentsTable :
                             /\ c.team_id = r.team
                             /\ c.judge_id = UserId(s)
                             /\ c.comment = text]_vars

\* a session that did not know the earlier row has inserted a comment and,
\* after a fetch made the earlier row known to it, has updated that row with
\* another text
C11_Witness ==
    \E s \in Sessions :
        /\ run[s].pc = "saved"
        /\ Len(commentLog[s]) = 2
        /\ commentLog[s][1].kind = "insert"
        /\ commentLog[s][2].kind = "update"
        /\ commentLog[s][2].id = EarlierComment.id
        /\ commentLog[s][2].comment # commentLog[s][1].comment
        /\ Cardinality(commentsTable) = 2

\* C22: the comments table has no constraint on (team_id, judge_id): the
\* comment write of a run that knows no existing comment inserts a row whatever
\* rows the pair has, so the pair has one row more than before; a run that
\* started while the other tab's run of the same pair was at its comment write
\* leaves the pair with more than one row.
C22_InsertAddsRowForPair ==
    [][\A s \in Sessions :
          (CommentStep(s) /\ run[s].existingComment = <<>>) =>
              /\ Cardinality(CommentsOf(commentsTable', run[s].team, run[s].judge))
                    = Cardinality(CommentsOf(commentsTable, run[s].team, run[s].judge)) + 1
              /\ \A q \in Sessions \ {s} :
                    ( /\ run[q].pc = "saved"
                      /\ run[q].team = run[s].team
                      /\ run[q].judge = run[s].judge
                      /\ run[q].existingComment = <<>>
                      /\ ~IsBlank(run[q].comment) )
                    => Cardinality(CommentsOf(commentsTable', run[s].team, run[s].judge)) >= 2]_vars

\* the two tabs of the judge have each inserted a comment for the team, from
\* runs that knew no existing comment, and the pair has two rows
C22_Witness ==
    /\ \A s \in Sessions :
          /\ run[s].pc = "saved"
          /\ run[s].existingComment = <<>>
          /\ Len(commentLog[s]) = 1
          /\ commentLog[s][1].kind = "insert"
    /\ run["s1"].team = run["s2"].team
    /\ run["s1"].judge = run["s2"].judge
    /\ Cardinality(CommentsOf(commentsTable, run["s1"].team, run["s1"].judge)) = 2

\* the positions of the writes that a run has not reached
Remaining(r) ==
    {i \in (r.pos + 1)..(Len(r.categories) + 1) : NextAwait(r, i) = i}

\* the store after the step holds every write of the run r: a row with the
\* run's value for each category with a score, and a comment row with the
\* trimmed text if the comment is not blank
AllWritesApplied(r) ==
    /\ \A c \in DOMAIN r.scores :
          \E x \in BagToSet(scoresTable') :
              /\ x.team_id = r.team /\ x.judge_id = r.judge
              /\ x.category_id = c /\ x.score = r.scores[c]
    /\ ~IsBlank(r.comment) =>
          \E x \in commentsTable' :
              /\ x.comment = Trimmed(r.comment)
              /\ IF r.existingComment # <<>> THEN x.id = r.existingComment[1].id
                 ELSE x.team_id = r.team /\ x.judge_id = r.judge

\* C12 (as claimed): a submission whose write failed still attempts its
\* remaining writes, so a run that has ended in the catch block has no write
\* of its submission left that it never issued.
C12_RemainingWritesAttempted ==
    \A s \in Sessions : run[s].pc = "failed" => Remaining(run[s]) = {}

\* C12 (amended): when a write of a submission fails, the failure is reported
\* (the catch block is entered, loading is reset) and the submission ends at
\* that write: the run stays at the failed position and, as long as it is the
\* session's last run, no further write reaches the store; a run reports
\* success only when every one of its writes has been applied.
C12_FailureEndsSubmission ==
    [][\A s \in Sessions :
          /\ (run[s].pc = "saving" /\ run'[s].pc = "failed") =>
                /\ run'[s].pos = run[s].pos
                /\ ~loading'[s]
                /\ scoresTable' = scoresTable
                /\ commentsTable' = commentsTable
          /\ (run[s].pc = "failed" /\ run'[s] = run[s]) =>
                /\ scoresTable' = scoresTable
                /\ commentsTable' = commentsTable
          /\ (run'[s] # run[s] /\ run'[s].pc = "saved") => AllWritesApplied(run'[s])]_vars

\* a run has failed at its first upsert while an upsert of the second category
\* and a comment write were still to come, and neither has reached the store
C12_Witness ==
    \E s \in Sessions :
        /\ run[s].pc = "failed"
        /\ run[s].pos = 1
        /\ Cardinality(Remaining(run[s])) = 2
        /\ scoresTable = EmptyBag
        /\ commentsTable \subseteq {EarlierComment}
        /\ ~loading[s]

\* C13: a failed submission is not rolled back: the upserts of the run that
\* returned without error before the failure are in the scores table, with the
\* values of the run.
C13_AppliedWritesStayAfterFailure ==
    \A s \in Sessions :
        run[s].pc = "failed" =>
            \A i \in 1..(run[s].pos - 1) :
                LET c == run[s].categories[i].id
                IN  (i <= Len(run[s].categories) /\ c \in DOMAIN run[s].scores) =>
                        \E x \in BagToSet(scoresTable) :
                            /\ x.team_id = run[s].team
                            /\ x.judge_id = run[s].judge
                            /\ x.category_id = c
                            /\ x.score = run[s].scores[c]

\* a run with scores for both categories has failed at its second upsert: the
\* row of the first category is in the table, no row of the second is
C13_Witness ==
    \E s \in Sessions :
        /\ run[s].pc = "failed"
        /\ run[s].pos = 2
        /\ DOMAIN run[s].scores = CategoryIds
        /\ KeyCount(scoresTable, run[s].team, run[s].judge, run[s].categories[1].id) = 1
        /\ KeyCount(scoresTable, run[s].team, run[s].judge, run[s].categories[2].id) = 0

\* a fetch of the rows of team and judge has been sent and not answered
Sent(fetches, team, judge) ==
    \E f \in fetches : f.team = team /\ f.judge = judge /\ f.state = "sent"

\* C15: a step that ends a saveScores run with success sends a fetch of the
\* scores and a fetch of the comment of the team that was selected when the
\* run started, for the acting judge; a step that ends a run with a failure
\* sends no fetch.
C15_RefetchAfterSuccessOnly ==
    [][\A s \in Sessions :
          /\ (run'[s] # run[s] /\ run'[s].pc = "saved") =>
                /\ Sent(scoresFetch'[s], run'[s].team, UserId(s))
                /\ Sent(commentFetch'[s], run'[s].team, UserId(s))
          /\ (run'[s] # run[s] /\ run'[s].pc = "failed") =>
                /\ scoresFetch' = scoresFetch
                /\ commentFetch' = commentFetch]_vars

\* a run that wrote a score and a comment has ended with success after the
\* fetches of the mount had returned: its two re-fetches are on their way
C15_Witness ==
    \E s \in Sessions :
        /\ run[s].pc = "saved"
        /\ DOMAIN run[s].scores # {}
        /\ ~IsBlank(run[s].comment)
        /\ scoresFetch[s] = {[team |-> run[s].team, judge |-> UserId(s), state |-> "sent",
                              data |-> EmptyMap]}
        /\ commentFetch[s] = {[team |-> run[s].team, judge |-> UserId(s), state |-> "sent",
                               data |-> <<>>]}

\* C16: for every (team, judge, category) that sessions have upserted, in
\* whatever order the upserts of concurrent runs were applied, the table holds
\* exactly one row, and its score is the value of the upsert applied last.
C16_LastWriteWins ==
    \A k \in DOMAIN submitted :
        /\ KeyCount(scoresTable, k[1], k[2], k[3]) = 1
        /\ \A r \in RowsOfKey(scoresTable, k[1], k[2], k[3]) : r.score = Last(submitted[k])

\* two sessions of one judge: while the run of the first, which has upserted
\* the first category, waits for its second upsert, the run of the second has
\* upserted another value for the first category
C16_Witness ==
    LET k == <<run["s1"].team, run["s1"].judge, CategoryRows[1].id>>
    IN  /\ user["s1"] = user["s2"]
        /\ run["s1"].pc = "saving"
        /\ run["s1"].pos = 2
        /\ run["s2"].pc \in {"saving", "saved"}
        /\ run["s2"].team = run["s1"].team
        /\ k \in DOMAIN submitted
        /\ k[3] \in (DOMAIN run["s1"].scores) \cap (DOMAIN run["s2"].scores)
        /\ submitted[k] = <<run["s1"].scores[k[3]], run["s2"].scores[k[3]]>>
        /\ submitted[k][1] # submitted[k][2]
        /\ \A r \in RowsOfKey(scoresTable, k[1], k[2], k[3]) :
              r.score = run["s2"].scores[k[3]]

(***************************************************************************)
(* Properties of the identities (SpecAuth)                                 *)
(***************************************************************************)
\* the AuthProvider of session s takes the step op in this step
AuthStep(s, op) == notice'[s] # notice[s] /\ notice'[s].op = op

\* C17: a sign-in as judge or team whose name matches no row, or more than one
\* row, of the role's table throws and leaves the identity and the slot as
\* they were; a sign-in that throws leaves them too; a sign-in succeeds only
\* if exactly one row has the name, and then the identity has the id and the
\* name of that row and the requested role, and the slot holds that identity.
C17_NameSignInNeedsOneRow ==
    [][\A s \in Sessions :
          (AuthStep(s, "signIn") /\ notice'[s].role \in {"judge", "team"}) =>
              LET role == notice'[s].role
                  table == IF role = "judge" THEN judgesTable ELSE Range(teamsTable)
                  rows == {r \in table : r.name = notice'[s].credentials.name}
                  ok == notice'[s].error = ""
              IN  /\ Cardinality(rows) # 1 => ~ok
                  /\ ~ok => (user'[s] = user[s] /\ authSlot' = authSlot)
                  /\ ok => \E r \in rows :
                        /\ user'[s] = <<[role |-> role, id |-> r.id, name |-> r.name]>>
                        /\ parse(authSlot') = user'[s][1]]_vars

\* a session that holds a judge identity has just failed to sign in as judge
\* with a name of other case, and the other session has signed in as a team
C17_Witness ==
    \E s, q \in Sessions :
        /\ notice[s].op = "signIn"
        /\ notice[s].role = "judge"
        /\ notice[s].credentials.name = "ann"
        /\ notice[s].error = "Judge not found"
        /\ user[s] = <<[role |-> "judge", id |-> "j1", name |-> "Ann"]>>
        /\ notice[q].op = "signIn"
        /\ notice[q].error = ""
        /\ user[q] = <<[role |-> "team", id |-> "t1", name |-> "Alpha"]>>
        /\ parse(authSlot) = user[q][1]

\* C18: when the listener of onAuthStateChange is called with no session while
\* the identity of the session is an administrator, the identity is cleared
\* from memory and from the slot.
C18_NoSessionClearsAdmin ==
    [][\A s \in Sessions :
          ( /\ AuthStep(s, "notified")
            /\ notice'[s].session = <<>>
            /\ user[s] # <<>>
            /\ user[s][1].role = "admin" )
          => (user'[s] = <<>> /\ authSlot' = <<>>)]_vars

\* C19: the identity and the slot agree after each step of the lifecycle:
\* after a startup the identity is the one the slot holds (none if the slot is
\* empty), after a successful sign-in both hold the new identity, of the
\* requested role, and after a sign-out the identity is null and the slot empty.
C19_IdentityMirrorsSlot ==
    [][\A s \in Sessions :
          /\ AuthStep(s, "startup") =>
                IF authSlot' = <<>> THEN user'[s] = <<>>
                ELSE user'[s] # <<>> /\ user'[s][1] = parse(authSlot')
          /\ (AuthStep(s, "signIn") /\ notice'[s].error = "") =>
                /\ user'[s] # <<>>
                /\ user'[s][1].role = notice'[s].role
                /\ authSlot' # <<>>
                /\ parse(authSlot') = user'[s][1]
          /\ AuthStep(s, "signOut") => (user'[s] = <<>> /\ authSlot' = <<>>)]_vars

\* an administrator has signed in and signed out in one session, and the other
\* session has started from the slot in between
C19_Witness ==
    \E s, q \in Sessions :
        /\ notice[s].op = "signOut"
        /\ user[s] = <<>>
        /\ authSlot = <<>>
        /\ notice[q].op = "startup"
        /\ user[q] # <<>>
        /\ user[q][1].role = "admin"

\* C21: a sign-in as administrator with no email or no password throws the
\* validation error without calling signInWithPassword: the identity of every
\* session, the slot and the session of the identity provider are as before,
\* and the Login page stays, showing the message, after the one attempt.
C21_AdminValidationBeforeExchange ==
    [][\A s \in Sessions :
          ( /\ AuthStep(s, "signIn")
            /\ notice'[s].role = "admin"
            /\ (notice'[s].credentials.email = "" \/ notice'[s].credentials.password = "") )
          => /\ notice'[s].error = "Email and password required for admin login"
             /\ ~notice'[s].exchange
             /\ user' = user
             /\ authSlot' = authSlot
             /\ authSession' = authSession
             /\ page'[s] = "/login"
             /\ nAuth' = nAuth + 1]_vars

\* a session that holds a judge identity has just been refused as
\* administrator for its missing password, the other for its missing email
C21_Witness ==
    \E s, q \in Sessions :
        /\ notice[s].op = "signIn"
        /\ notice[s].role = "admin"
        /\ notice[s].credentials.password = ""
        /\ notice[s].credentials.email # ""
        /\ notice[s].error = "Email and password required for admin login"
        /\ user[s] # <<>>
        /\ user[s][1].role = "judge"
        /\ notice[q].op = "signIn"
        /\ notice[q].role = "admin"
        /\ notice[q].credentials.email = ""
        /\ ~notice[q].exchange

\* C27: a notification of a change of the session that arrives after a
\* sign-out of a tab, before another step of its AuthProvider, leaves the
\* identity of the tab null and the slot as it is.
C27_SignedOutUntilSignIn ==
    [][\A s \in Sessions :
          (notice[s].op = "signOut" /\ AuthStep(s, "notified"))
          => (user'[s] = <<>> /\ authSlot' = authSlot)]_vars

\* C28: a notification of a change of the session that arrives after a
\* sign-in as judge or team, before another step of the AuthProvider of the
\* tab, leaves the identity of the tab as the sign-in set it.
C28_NameIdentityKept ==
    [][\A s \in Sessions :
          ( /\ notice[s].op = "signIn"
            /\ notice[s].error = ""
            /\ notice[s].role \in {"judge", "team"}
            /\ AuthStep(s, "notified") )
          => user'[s] = user[s]]_vars

(***************************************************************************)
(* Properties of a judge session under changes of its identity (SpecSwitch)*)
(***************************************************************************)
\* the rows of the scores table and of the comments table that a step adds,
\* removes or replaces, in their old and in their new form
TouchedRows ==
    ((BagToSet(scoresTable) \cup BagToSet(scoresTable'))
        \ (BagToSet(scoresTable) \cap BagToSet(scoresTable')))
    \cup ((commentsTable \cup commentsTable') \ (commentsTable \cap commentsTable'))

\* C20: every score row and every comment row that a write of a saveScores
\* run inserts or changes has the judge_id of the judge who was the identity
\* of the session when the submission was made: a judge session changes no
\* row of another judge.
C20_OnlyOwnRowsChanged ==
    [][\A s \in Sessions :
          (run[s].pc = "saving" /\ run'[s] # run[s]) =>
              \A x \in TouchedRows : x.judge_id = run[s].judge]_vars

(***************************************************************************)
(* Order and frame of the writes of a submission (Spec)                    *)
(***************************************************************************)
\* the positions at which a run has a write: the categories with a provided
\* score, and the comment if it is not blank
WritePositions(r) ==
    {i \in 1..(Len(r.categories) + 1) :
        IF i <= Len(r.categories) THEN r.categories[i].id \in DOMAIN r.scores
        ELSE ~IsBlank(r.comment)}

\* C23: the writes of a saveScores run are issued one after the other: the run
\* waits for one write at a time, the next write is the first one behind the
\* write that has just returned in the order of the categories list with the
\* comment last, a step changes rows of the one write it is about only, and
\* when the comment write is applied every category with a provided score has
\* been upserted with the value of the run.
C23_WritesInSequence ==
    [][\A s \in Sessions :
          LET r == run[s]
              n == Len(r.categories)
              from == IF r.pc = "saving" THEN r.pos ELSE 0
          IN  /\ (run'[s] # r /\ run'[s].pc = "saving") =>
                    /\ run'[s].pos > from
                    /\ run'[s].pos \in WritePositions(run'[s])
                    /\ \A i \in (from + 1)..(run'[s].pos - 1) : i \notin WritePositions(run'[s])
              /\ (run'[s] # r /\ run'[s].pc = "saved") =>
                    \A i \in (from + 1)..(n + 1) : i \notin WritePositions(run'[s])
              /\ (r.pc = "saving" /\ run'[s] # r) =>
                    /\ r.pos \in WritePositions(r)
                    /\ Cardinality(BagToSet(scoresTable') \ BagToSet(scoresTable)) <= 1
                    /\ Cardinality(commentsTable' \ commentsTable) <= 1
                    /\ IF r.pos <= n
                       THEN /\ commentsTable' = commentsTable
                            /\ \A x \in TouchedRows : x.category_id = r.categories[r.pos].id
                       ELSE scoresTable' = scoresTable
              /\ (r.pc = "saving" /\ commentsTable' # commentsTable) =>
                    \A c \in DOMAIN r.scores :
                        /\ <<r.team, r.judge, c>> \in DOMAIN submitted
                        /\ Last(submitted[<<r.team, r.judge, c>>]) = r.scores[c]]_vars

\* a run with a score for each category and the loaded comment of the judge
\* has upserted both rows and then updated the comment row
C23_Witness ==
    \E s \in Sessions :
        /\ run[s].pc = "saved"
        /\ DOMAIN run[s].scores = CategoryIds
        /\ run[s].existingComment = <<EarlierComment>>
        /\ Len(commentLog[s]) = 1
        /\ commentLog[s][1].kind = "update"
        /\ \A c \in CategoryIds : KeyCount(scoresTable, run[s].team, run[s].judge, c) = 1

\* C24: a write of a saveScores run changes score rows of the team selected at
\* the submission, of the acting judge and of a category with a provided score
\* only: every other row stays as it is, the rows that appear have that key,
\* no key loses its row, and a step that is no write of a run changes no row.
C24_OnlySubmittedKeysChanged ==
    [][/\ (\A s \in Sessions : ~(run[s].pc = "saving" /\ run'[s] # run[s])) =>
             scoresTable' = scoresTable
       /\ \A s \in Sessions :
          LET r == run[s]
              Mine(x) == /\ x.team_id = r.team
                         /\ x.judge_id = r.judge
                         /\ x.category_id \in DOMAIN r.scores
          IN  (r.pc = "saving" /\ run'[s] # r) =>
                    /\ \A x \in BagToSet(scoresTable) :
                          ~Mine(x) => CopiesIn(x, scoresTable') = CopiesIn(x, scoresTable)
                    /\ \A x \in BagToSet(scoresTable') \ BagToSet(scoresTable) : Mine(x)
                    /\ \A x \in BagToSet(scoresTable) :
                          KeyCount(scoresTable', x.team_id, x.judge_id, x.category_id)
                              >= KeyCount(scoresTable, x.team_id, x.judge_id, x.category_id)]_vars

\* both sessions have saved a score for the first category of the first team:
\* the row of the other judge was overwritten by that judge's session only,
\* and the rows of the other team and of the other category are as they were
C24_Witness ==
    /\ \A s \in Sessions :
          /\ run[s].pc = "saved"
          /\ DOMAIN run[s].scores = {CategoryRows[1].id}
          /\ run[s].scores[CategoryRows[1].id] # 1
          /\ \E x \in BagToSet(scoresTable) :
                /\ x.team_id = run[s].team /\ x.judge_id = run[s].judge
                /\ x.category_id = CategoryRows[1].id
                /\ x.score = run[s].scores[CategoryRows[1].id]
    /\ \A x \in OtherRows : x.judge_id = "j1" => CopiesIn(x, scoresTable) = 1
    /\ BagCardinality(scoresTable) = 4

(***************************************************************************)
(* Submissions after a change of the selected team (SpecSelect)            *)
(***************************************************************************)
\* session s starts a saveScores run in this step
ClickStep(s) == run[s].pc # "saving" /\ run'[s] # run[s]

\* C25: every score that a saveScores run takes to write for a team was
\* entered while that team was selected or loaded from the rows of that team.
C25_ScoresBelongToSelectedTeam ==
    [][\A s \in Sessions :
          ClickStep(s) =>
              \A c \in DOMAIN run'[s].scores : origin[s].scores[c] = run'[s].team]_vars

\* C26: a comment update of a saveScores run addresses a row of the team the
\* run writes for and of its judge, and the text it writes was entered or
\* loaded for that team.
C26_CommentUpdateOfSelectedTeam ==
    [][\A s \in Sessions :
          (ClickStep(s) /\ ~IsBlank(run'[s].comment) /\ run'[s].existingComment # <<>>) =>
              /\ run'[s].existingComment[1].team_id = run'[s].team
              /\ run'[s].existingComment[1].judge_id = run'[s].judge
              /\ origin[s].comment = run'[s].team]_vars

(***************************************************************************)
(* The total of the TeamDashboard and the leaderboard (SpecTeam)           *)
(***************************************************************************)
\* C29: when a fetchData call of the dashboard of a team and a run of
\* fetchLeaderboard have both got their rows from one state of the store, the
\* total the dashboard holds equals the total_score of the entry of that team
\* in the leaderboard, and the leaderboard has such an entry.
C29_DashboardTotalIsLeaderboardTotal ==
    \A s \in Sessions :
        (tdPc[s] = "done" /\ tdFetch[s] = {} /\ lbPc = "done") =>
            /\ \E i \in 1..Len(leaderboard) : leaderboard[i].team_id = UserId(s)
            /\ \A i \in 1..Len(leaderboard) :
                  leaderboard[i].team_id = UserId(s) =>
                      leaderboard[i].total_score = tdTotalScore[s]

\* the dashboard of a team with rows in both categories holds a total above
\* every single score, and the leaderboard ranks that team behind another
\* team with another total
C29_Witness ==
    \E s \in Sessions :
        /\ tdPc[s] = "done"
        /\ tdFetch[s] = {}
        /\ lbPc = "done"
        /\ tdTotalScore[s] > 0
        /\ Cardinality(RowsOfTeam(lbScores, UserId(s))) = 2
        /\ \E i, k \in 1..Len(leaderboard) :
              /\ i < k
              /\ leaderboard[k].team_id = UserId(s)
              /\ leaderboard[k].total_score = tdTotalScore[s]
              /\ leaderboard[i].total_score > tdTotalScore[s]

C14_FetchFailureShown ==
    lbPc = "failed" =>
        /\ leaderboard = <<>>
        /\ ~lbLoading
        /\ View(lbLoading, leaderboard) # View(FALSE, rankedData(Sort(teamScores(<<>>, <<>>))))

====
